---- MODULE Spec2Model ----
(***************************************************************************)
(* Verification model of the arcadia-app extension front end:              *)
(*   - the version comparator of src/src/lib/extensions.ts,                *)
(*   - the useExtensionStore / useStoreSources / useExtensions hooks,      *)
(*   - the ExtensionRuntime hook dispatcher of extension-system-design.md, *)
(*   - the backend registry and permission gate reached through invoke().  *)
(* Each part has its own specification (SpecVersion, SpecStore, ...) over  *)
(* the shared variables; a part's actions leave the other parts alone.     *)
(***************************************************************************)
EXTENDS Integers, Sequences, FiniteSets, TLC

VARIABLES
  \* ---- version comparator ----
  segs1,            \* the numeric segments the first version string is written from
  segs2,            \* ... and the second
  v1,               \* first version string (a sequence of characters)
  v2,               \* second version string
  verPc,            \* "input" | "compared" | "checked"
  verResult,        \* last value returned by compareVersions
  storeExtension,   \* the StoreExtension handed to isUpdateAvailable
  updateAvailable,  \* last value returned by isUpdateAvailable
  \* ---- useExtensions hook state ----
  extensions,       \* useState<ExtensionInfo[]> of useExtensions
  menuItems,        \* useState<MenuItem[]>: the ids of the extensions owning the items
  extLoading,       \* useState(true): loading
  extError,         \* useState<string | null>: error
  calls,            \* the invoke() calls of the hook that have not completed yet
  opsIssued,        \* number of handler calls the user has made so far
  \* ---- backend registry behind invoke() ----
  lifecycle,        \* lifecycle state of every extension id
  incarnation,      \* how many times an id has been installed anew
  lastEdge,         \* the last lifecycle transition each id has taken
  settings,         \* extension_settings: the (key, value) rows of every extension id
  \* ---- ExtensionRuntime ----
  hooks,            \* private hooks: Map<string, ExtensionHook[]>
  regLog,           \* every registerHook call so far, in call order
  hookCall,         \* the callHook invocation in progress or last completed
  \* ---- permission gate ----
  manifestRev,      \* which revision of its manifest each extension is installed with
  granted,          \* extension_permissions rows with granted = 1, per extension
  lastGate,         \* the last call made to the gate and its result
  \* ---- useExtensionStore hook state ----
  variant,          \* "A": hooks/use-extension-store.ts, "B": the copy in hooks/use-app-settings.ts
  catalogSize,      \* number of entries of the (unchanged) store catalog
  storeExtensions,  \* useState<StoreExtension[]>: id and source_id of the listed entries
  storeLoading,     \* useState(false): loading
  storeError,       \* useState<string | null>: error
  hasMore,          \* useState(true)
  currentPage,      \* useState(0)
  filters,          \* useState<StoreFilters>({})
  sort,             \* useState<SortOption>(SortOption.Name)
  hookSources,      \* sources of the useStoreSources instance the store hook owns
  sourcesPc,        \* "unmounted" | "sent" | "done": its fetchSources call on mount
  inflight,         \* fetchStoreExtensions calls awaiting their reply, in call order
  listOrigin,       \* which replies storeExtensions was built from, in order
  storeOps,         \* number of calls the user of the hook has made so far
  \* ---- extension settings functions of the hook in use-app-settings.ts ----
  settingCalls,     \* the settings invoke() calls awaiting their continuation
  detailCalls,      \* the fetch_extension_details invoke() calls awaiting theirs
  \* ---- store sources: the backend's table and the page's useStoreSources ----
  backendSources,   \* the configured store sources
  pageSources,      \* sources, loading and error of the page's useStoreSources
  sourceCalls,      \* the page's source invoke() calls awaiting their continuation
  srcOps,           \* number of source calls the page has made so far
  \* ---- manifest checks of lib/extensions.ts ----
  manifestType,     \* the type string of the manifest
  manifestPerms,    \* the permission strings of the manifest
  permResults,      \* isValidPermission of the permissions checked so far
  typeResult,       \* getExtensionTypeFromString of the type, once computed
  \* ---- filter controls of ExtensionStorePage ----
  searchQuery,      \* useState(''): the text of the search box
  selectedSource,   \* useState<string>('all'): the source selection
  timer             \* the pending debounce timeout and what its closure holds

versionVars == <<segs1, segs2, v1, v2, verPc, verResult, storeExtension, updateAvailable>>
extHookVars == <<extensions, menuItems, extLoading, extError, calls, opsIssued>>
registryVars == <<lifecycle, incarnation, lastEdge, settings>>
runtimeVars == <<hooks, regLog, hookCall>>
gateVars == <<manifestRev, granted, lastGate>>
storeVars == <<variant, catalogSize, storeExtensions, storeLoading, storeError, hasMore,
               currentPage, filters, sort, hookSources, sourcesPc, inflight, listOrigin,
               storeOps>>
settingsVars == <<settingCalls, detailCalls>>
sourceVars == <<backendSources, pageSources, sourceCalls, srcOps>>
manifestVars == <<manifestType, manifestPerms, permResults, typeResult>>
filterPageVars == <<searchQuery, selectedSource, timer>>
libVars == <<versionVars, manifestVars>>
vars == <<libVars, extHookVars, registryVars, runtimeVars, gateVars, storeVars,
          settingsVars, sourceVars, filterPageVars>>

\* What the actions of one part leave alone.
outsideLib == <<filterPageVars, extHookVars, registryVars, runtimeVars, gateVars, storeVars, settingsVars,
    sourceVars>>
outsideVersion == <<outsideLib, manifestVars>>
outsideRegistry == <<filterPageVars, libVars, runtimeVars, gateVars, storeVars, settingsVars,
    sourceVars>>
outsideRuntime == <<filterPageVars, libVars, extHookVars, registryVars, gateVars, storeVars, settingsVars,
    sourceVars>>
outsideGate == <<filterPageVars, libVars, extHookVars, registryVars, runtimeVars, storeVars, settingsVars,
    sourceVars>>
outsideStore == <<filterPageVars, libVars, extHookVars, registryVars, runtimeVars, gateVars, settingsVars,
    sourceVars>>
outsideSources == <<filterPageVars, libVars, extHookVars, registryVars, runtimeVars, gateVars, settingsVars>>
outsideFilterPage == <<libVars, extHookVars, registryVars, runtimeVars, gateVars, settingsVars,
    sourceVars>>

(***************************************************************************)
(* Bounds                                                                  *)
(***************************************************************************)
MaxSegments == 3
MaxCalls == 2
MaxOps == 3
MaxHooks == 2
MaxIncarnations == 2
MaxCatalog == 41
MaxInFlight == 2
MaxStoreOps == 2
MaxSettingCalls == 2
MaxSrcOps == 2
MaxSourceCalls == 2
MaxPageOps == 2
MaxPermissions == 2

SegValues == {0, 1, 9, 10}
ExtIds == {"e1", "e2"}

(***************************************************************************)
(* Strings are sequences of one-character strings.                         *)
(***************************************************************************)
Digits == <<"0", "1", "2", "3", "4", "5", "6", "7", "8", "9">>

IsDigit(c) == \E i \in 1..10 : Digits[i] = c

DigitVal(c) == (CHOOSE i \in 1..10 : Digits[i] = c) - 1

\* Number.prototype.toString for a non-negative integer.
RECURSIVE numberToString(_)
numberToString(n) ==
  IF n < 10 THEN <<Digits[n + 1]>>
  ELSE numberToString(n \div 10) \o <<Digits[(n % 10) + 1]>>

\* Array.prototype.join('.') over the formatted segments.
RECURSIVE JoinDots(_)
JoinDots(ns) ==
  IF Len(ns) = 0 THEN <<>>
  ELSE IF Len(ns) = 1 THEN numberToString(ns[1])
  ELSE numberToString(ns[1]) \o <<".">> \o JoinDots(Tail(ns))

\* String.prototype.split('.'): the pieces between the dots, empty pieces kept.
RECURSIVE SplitFrom(_, _)
SplitFrom(s, cur) ==
  IF Len(s) = 0 THEN <<cur>>
  ELSE IF Head(s) = "." THEN <<cur>> \o SplitFrom(Tail(s), <<>>)
  ELSE SplitFrom(Tail(s), Append(cur, Head(s)))

split(s) == SplitFrom(s, <<>>)

\* NaN is the only value of Number() that is not a non-negative integer here.
NaN == -1

RECURSIVE DigitsValue(_, _)
DigitsValue(s, acc) ==
  IF Len(s) = 0 THEN acc
  ELSE DigitsValue(Tail(s), acc * 10 + DigitVal(Head(s)))

\* Number(piece): "" is 0, a run of decimal digits is its value, else NaN.
Number(piece) ==
  IF Len(piece) = 0 THEN 0
  ELSE IF \A i \in 1..Len(piece) : IsDigit(piece[i]) THEN DigitsValue(piece, 0)
  ELSE NaN

\* parts[i] || 0 : undefined (index past the end), NaN and 0 all give 0.
PartOrZero(parts, i) ==
  IF i > Len(parts) THEN 0
  ELSE IF parts[i] = NaN THEN 0
  ELSE parts[i]

Max(a, b) == IF a >= b THEN a ELSE b
Min(a, b) == IF a <= b THEN a ELSE b

\* Variant of the loop that stops at the shorter array and lets the longer
\* version win.
RECURSIVE CompareFrom_lengthTiebreak(_, _, _, _)
CompareFrom_lengthTiebreak(parts1, parts2, i, maxLength) ==
  IF i > Min(Len(parts1), Len(parts2))
  THEN IF Len(parts1) < Len(parts2) THEN -1
       ELSE IF Len(parts1) > Len(parts2) THEN 1
       ELSE 0
  ELSE IF parts1[i] < parts2[i] THEN -1
  ELSE IF parts1[i] > parts2[i] THEN 1
  ELSE CompareFrom_lengthTiebreak(parts1, parts2, i + 1, maxLength)

\* The for loop of compareVersions, from index i (1-based) on.
RECURSIVE CompareFrom(_, _, _, _)
CompareFrom(parts1, parts2, i, maxLength) ==
  IF i > maxLength THEN 0
  ELSE LET part1 == PartOrZero(parts1, i)
           part2 == PartOrZero(parts2, i)
       IN IF part1 < part2 THEN -1
          ELSE IF part1 > part2 THEN 1
          ELSE CompareFrom(parts1, parts2, i + 1, maxLength)

\* Variant without .map(Number): the pieces are compared as text.
RECURSIVE TextLess(_, _)
TextLess(s, t) ==
  IF Len(t) = 0 THEN FALSE
  ELSE IF Len(s) = 0 THEN TRUE
  ELSE IF Head(s) # Head(t) THEN DigitVal(Head(s)) < DigitVal(Head(t))
  ELSE TextLess(Tail(s), Tail(t))

RECURSIVE TextCompareFrom(_, _, _, _)
TextCompareFrom(p1, p2, i, maxLength) ==
  IF i > maxLength THEN 0
  ELSE LET part1 == IF i > Len(p1) THEN <<"0">> ELSE p1[i]
           part2 == IF i > Len(p2) THEN <<"0">> ELSE p2[i]
       IN IF TextLess(part1, part2) THEN -1
          ELSE IF TextLess(part2, part1) THEN 1
          ELSE TextCompareFrom(p1, p2, i + 1, maxLength)

compareVersions_text(a, b) ==
  TextCompareFrom(split(a), split(b), 1, Max(Len(split(a)), Len(split(b))))

compareVersions(a, b) ==
  LET parts1 == [i \in 1..Len(split(a)) |-> Number(split(a)[i])]
      parts2 == [i \in 1..Len(split(b)) |-> Number(split(b)[i])]
      maxLength == Max(Len(parts1), Len(parts2))
  IN CompareFrom(parts1, parts2, 1, maxLength)

\* Variant with >= in place of >.
isVersionGreater_orEqual(a, b) == compareVersions(a, b) >= 0

isVersionGreater(a, b) == compareVersions(a, b) > 0

NoError == "null"

HookNames == {"onAppStart", "onDataLoad"}

Handlers == {"h1", "h2", "h3"}

\* No callHook made yet.
NoHookCall == [status |-> "none", name |-> "none", snapshot |-> <<>>,
               started |-> <<>>, outcomes |-> <<>>, completion |-> <<>>,
               result |-> <<>>, error |-> "none", enabledAtDispatch |-> {}]

\* No call made to the permission gate yet.
NoGateCall == [op |-> "none", id |-> "none", permission |-> "none", ok |-> TRUE]

\* No lifecycle transition taken yet.
NoEdge == <<"none", "none">>

\* A free slot of the table of invoke() calls in flight.
IdleCall == [op |-> "none", id |-> "none", phase |-> "idle", ok |-> TRUE,
             err |-> "none", list |-> <<>>, menu |-> {},
             req |-> [reset |-> FALSE, page |-> 0, search |-> "undefined",
                      source_ids |-> <<>>, sort |-> "Name", limit |-> 0]]

(***************************************************************************)
(* useExtensions: getExtensionById is Array.prototype.find over the hook's *)
(* list; NoExtension stands for undefined.                                 *)
(***************************************************************************)
NoExtension == [id |-> "none", version |-> <<>>, enabled |-> FALSE]

getExtensionById(list, id) ==
  IF \E i \in 1..Len(list) : list[i].id = id
  THEN list[CHOOSE i \in 1..Len(list) :
              /\ list[i].id = id
              /\ \A j \in 1..(i - 1) : list[j].id # id]
  ELSE NoExtension

\* useExtensionStore.isUpdateAvailable
isUpdateAvailable(list, storeExt) ==
  LET installedExtension == getExtensionById(list, storeExt.id)
  IN IF installedExtension = NoExtension THEN FALSE
     ELSE isVersionGreater(storeExt.version, installedExtension.version)

(***************************************************************************)
(* useExtensionStore before it is mounted: the useState initial values.    *)
(***************************************************************************)
PAGE_SIZE == 20

Undefined == "undefined"

\* StoreFilters: the keys the store page sets; source_ids is undefined or the
\* id of the one source of the list [selectedSource].
NoFilters == [search |-> Undefined, source_ids |-> Undefined]

\* No extension has a setting and no settings or details call is in flight.
NoSettings ==
  /\ settings = [id \in ExtIds |-> {}]
  /\ settingCalls = <<>>
  /\ detailCalls = <<>>

\* No manifest is being checked.
NoManifest ==
  /\ manifestType = "theme"
  /\ manifestPerms = <<>>
  /\ permResults = <<>>
  /\ typeResult = "none"

\* The sources the backend is configured with at the start.
BackendSources ==
  << [id |-> "s2", enabled |-> TRUE, priority |-> 1],
     [id |-> "s1", enabled |-> TRUE, priority |-> 0] >>

\* The page with its useStoreSources instance is not mounted.
NoTimer == [pending |-> FALSE, filters |-> NoFilters, searchQuery |-> ""]

\* The filter controls of the store page are untouched.
NoFilterPage ==
  /\ searchQuery = ""
  /\ selectedSource = "all"
  /\ timer = NoTimer

NoSourcePage ==
  /\ backendSources = BackendSources
  /\ pageSources = [sources |-> <<>>, loading |-> FALSE, error |-> NoError]
  /\ sourceCalls = <<>>
  /\ srcOps = 0

StoreUnmounted ==
  /\ variant = "A"
  /\ catalogSize = 0
  /\ storeExtensions = <<>>
  /\ storeLoading = FALSE
  /\ storeError = NoError
  /\ hasMore = TRUE
  /\ currentPage = 0
  /\ filters = NoFilters
  /\ sort = "Name"
  /\ hookSources = <<>>
  /\ sourcesPc = "unmounted"
  /\ inflight = <<>>
  /\ listOrigin = <<>>
  /\ storeOps = 0

(***************************************************************************)
(* Specification of the version comparator: the inputs are drawn in Init,  *)
(* the actions apply the functions.                                        *)
(***************************************************************************)
SegmentSeqs == UNION {[1..k -> SegValues] : k \in 1..MaxSegments}

\* The installed-extension views isUpdateAvailable is tried on: nothing
\* installed, the store extension's id installed, only another id installed.
InstalledViews(ver) ==
  { <<>>,
    <<[id |-> "e1", version |-> ver, enabled |-> TRUE]>>,
    <<[id |-> "e2", version |-> ver, enabled |-> FALSE]>> }

InitVersion ==
  /\ segs1 \in SegmentSeqs
  /\ segs2 \in SegmentSeqs
  /\ v1 = JoinDots(segs1)
  /\ v2 = JoinDots(segs2)
  /\ verPc = "input"
  /\ verResult = 0
  /\ storeExtension = [id |-> "e1", version |-> v1]
  /\ updateAvailable = FALSE
  /\ extensions \in InstalledViews(v2)
  /\ menuItems = {}
  /\ extLoading = FALSE
  /\ extError = NoError
  /\ calls = [slot \in 1..MaxCalls |-> IdleCall]
  /\ opsIssued = 0
  /\ lifecycle = [id \in ExtIds |-> "Discovered"]
  /\ incarnation = [id \in ExtIds |-> 1]
  /\ lastEdge = [id \in ExtIds |-> NoEdge]
  /\ hooks = [name \in HookNames |-> <<>>]
  /\ regLog = <<>>
  /\ hookCall = NoHookCall
  /\ manifestRev = [id \in ExtIds |-> 1]
  /\ granted = [id \in ExtIds |-> {}]
  /\ lastGate = NoGateCall
  /\ NoSettings
  /\ NoManifest
  /\ NoSourcePage
  /\ NoFilterPage
  /\ StoreUnmounted

CallCompareVersions ==
  /\ verPc = "input"
  /\ verResult' = compareVersions(v1, v2)
  /\ verPc' = "compared"
  /\ UNCHANGED <<segs1, segs2, v1, v2, storeExtension, updateAvailable>>
  /\ UNCHANGED outsideVersion

CallIsUpdateAvailable ==
  /\ verPc = "compared"
  /\ updateAvailable' = isUpdateAvailable(extensions, storeExtension)
  /\ verPc' = "checked"
  /\ UNCHANGED <<segs1, segs2, v1, v2, verResult, storeExtension>>
  /\ UNCHANGED outsideVersion

NextVersion == CallCompareVersions \/ CallIsUpdateAvailable

SpecVersion == InitVersion /\ [][NextVersion]_vars

(***************************************************************************)
(* Backend registry reached through invoke(): the lifecycle of the design  *)
(* document, the Failed sink and the per-id exclusion of the registry.     *)
(***************************************************************************)
LifecycleStates ==
  {"Discovered", "Installing", "Installed", "Enabling", "Enabled",
   "Disabling", "Disabled", "Uninstalling", "Removed", "Failed"}

\* The edges of the state diagram (Uninstalling --> [*] is Removed).
DiagramEdges ==
  { <<"Discovered", "Installing">>, <<"Installing", "Installed">>,
    <<"Installed", "Enabling">>, <<"Enabling", "Enabled">>,
    <<"Enabled", "Disabling">>, <<"Disabling", "Disabled">>,
    <<"Disabled", "Enabling">>, <<"Enabled", "Uninstalling">>,
    <<"Uninstalling", "Removed">>, <<"Installed", "Uninstalling">>,
    <<"Disabled", "Uninstalling">> }

\* Any state may fail; a failed extension can only be uninstalled.
FailedEdges ==
  {<<st, "Failed">> : st \in LifecycleStates \ {"Failed"}} \cup {<<"Failed", "Uninstalling">>}

TransientStates == {"Installing", "Enabling", "Disabling", "Uninstalling"}

\* Variant that also accepts an uninstall of an id that is already removed.
UninstallableStates_removed == {"Installed", "Enabled", "Disabled", "Removed"}

\* The states the diagram lets an uninstall start from.
UninstallableStates == {st \in LifecycleStates : <<st, "Uninstalling">> \in DiagramEdges}

EnableableStates == {st \in LifecycleStates : <<st, "Enabling">> \in DiagramEdges}

DisableableStates == {st \in LifecycleStates : <<st, "Disabling">> \in DiagramEdges}

\* Variant that also installs over a live row.
FreshInstallStates_live == {"Removed", "Failed", "Installed", "Enabled", "Disabled"}

\* An install starts a lifecycle: from Discovered, or anew over a removed or
\* failed row.
FreshInstallStates == {"Removed", "Failed"}

\* install_extension (manifest path) and install_from_store, which delegates
\* to the same install once the package is downloaded and verified.
InstallOps == {"install", "install_from_store"}

TransientOf(op) ==
  CASE op \in InstallOps -> "Installing"
    [] op = "enable" -> "Enabling"
    [] op = "disable" -> "Disabling"
    [] op = "uninstall" -> "Uninstalling"

SettledOf(op) ==
  CASE op \in InstallOps -> "Installed"
    [] op = "enable" -> "Enabled"
    [] op = "disable" -> "Disabled"
    [] op = "uninstall" -> "Removed"

MutatingOps == {"install", "enable", "disable", "uninstall"}

\* Call c has reached the registry.
AtRegistry(c) ==
  \/ c.phase = "sent" /\ c.op \in MutatingOps
  \/ c.phase = "downloaded" /\ c.op = "install_from_store"

\* The calls that hold the per-id exclusion.
RunningOn(id) == {k \in 1..MaxCalls : calls[k].phase = "running" /\ calls[k].id = id}

\* Variant with one global lock.
LockFree_global(id) == \A k \in 1..MaxCalls : calls[k].phase # "running"

\* Variant without any lock.
LockFree_none(id) == TRUE

LockFree(id) == RunningOn(id) = {}

ManifestVersion(id) == <<"1", ".", "0">>

ExtOrder == <<"e1", "e2">>

ListedStates ==
  {"Installed", "Enabling", "Enabled", "Disabling", "Disabled", "Uninstalling", "Failed"}

\* The enabled flag the backend reports: it changes when a transition settles.
BackendEnabled(id) == lifecycle[id] \in {"Enabled", "Disabling"}

ExtensionInfoOf(id) ==
  [id |-> id, version |-> ManifestVersion(id), enabled |-> BackendEnabled(id)]

\* list_extensions
BackendList ==
  LET listed == SelectSeq(ExtOrder, LAMBDA id : lifecycle[id] \in ListedStates)
  IN [i \in 1..Len(listed) |-> ExtensionInfoOf(listed[i])]

\* get_extension_menu_items: the menu items of all enabled extensions
BackendMenuItems == {id \in ExtIds : BackendEnabled(id)}

Reply(c, ok, err) == [c EXCEPT !.phase = "replied", !.ok = ok, !.err = err]

\* The backend takes up call k: it starts the transition under the per-id
\* exclusion, or answers at once when there is nothing to do or nothing to do it to.
BackendBegin(k) ==
  LET c == calls[k]
      st == lifecycle[c.id]
  IN /\ AtRegistry(c)
     /\ LockFree(c.id)
     /\ \/ /\ \/ c.op \in InstallOps /\ st = "Discovered"
              \/ c.op = "enable" /\ st \in EnableableStates
              \/ c.op = "disable" /\ st \in DisableableStates
              \/ c.op = "uninstall" /\ st \in UninstallableStates \cup {"Failed"}
           /\ lifecycle' = [lifecycle EXCEPT ![c.id] = TransientOf(c.op)]
           /\ lastEdge' = [lastEdge EXCEPT ![c.id] = <<st, TransientOf(c.op)>>]
           /\ calls' = [calls EXCEPT ![k].phase = "running"]
           /\ UNCHANGED <<incarnation, settings>>
        \/ /\ c.op \in InstallOps /\ st \in FreshInstallStates
           /\ incarnation[c.id] < MaxIncarnations
           /\ lifecycle' = [lifecycle EXCEPT ![c.id] = "Installing"]
           /\ lastEdge' = [lastEdge EXCEPT ![c.id] = <<"Discovered", "Installing">>]
           /\ incarnation' = [incarnation EXCEPT ![c.id] = @ + 1]
           /\ calls' = [calls EXCEPT ![k].phase = "running"]
           /\ UNCHANGED settings
        \/ /\ c.op \in InstallOps /\ st \notin FreshInstallStates \cup {"Discovered"}
           /\ calls' = [calls EXCEPT ![k] = Reply(c, FALSE, "AlreadyInstalled")]
           /\ UNCHANGED registryVars
        \/ /\ \/ c.op = "enable" /\ st = "Enabled"
              \/ c.op = "disable" /\ st \in {"Installed", "Disabled"}
           /\ calls' = [calls EXCEPT ![k] = Reply(c, TRUE, "none")]
           /\ UNCHANGED registryVars
        \/ /\ c.op \in {"enable", "disable"} /\ st = "Failed"
           /\ calls' = [calls EXCEPT ![k] = Reply(c, FALSE, "ExtensionError")]
           /\ UNCHANGED registryVars
        \/ /\ c.op \in {"enable", "disable", "uninstall"}
           /\ st \in {"Discovered", "Removed"}
           /\ st \notin UninstallableStates \/ c.op # "uninstall"
           /\ calls' = [calls EXCEPT ![k] = Reply(c, FALSE, "NotFound")]
           /\ UNCHANGED registryVars
     /\ UNCHANGED <<outsideRegistry, extensions, menuItems, extLoading, extError, opsIssued>>

\* A call on an id whose exclusion is held is queued (it stays "sent") or is
\* rejected with OperationInProgress.
BackendReject(k) ==
  LET c == calls[k]
  IN /\ AtRegistry(c)
     /\ ~LockFree(c.id)
     /\ calls' = [calls EXCEPT ![k] = Reply(c, FALSE, "OperationInProgress")]
     /\ UNCHANGED <<outsideRegistry, extensions, menuItems, extLoading, extError, opsIssued, registryVars>>

\* Variant of the uninstall that leaves the settings rows behind.
PurgeSettings_keep(table, id) == table

\* A successful uninstall removes the registry row and purges the settings
\* of the id.
PurgeSettings(table, id) == [table EXCEPT ![id] = {}]

\* The transition of call k settles, or fails and parks the extension in Failed.
BackendFinish(k) ==
  LET c == calls[k]
  IN /\ c.phase = "running"
     /\ \/ /\ lifecycle' = [lifecycle EXCEPT ![c.id] = SettledOf(c.op)]
           /\ lastEdge' = [lastEdge EXCEPT ![c.id] = <<lifecycle[c.id], SettledOf(c.op)>>]
           /\ settings' = IF c.op = "uninstall" THEN PurgeSettings(settings, c.id)
                          ELSE settings
           /\ calls' = [calls EXCEPT ![k] = Reply(c, TRUE, "none")]
        \/ /\ lifecycle' = [lifecycle EXCEPT ![c.id] = "Failed"]
           /\ lastEdge' = [lastEdge EXCEPT ![c.id] = <<lifecycle[c.id], "Failed">>]
           /\ calls' = [calls EXCEPT ![k] = Reply(c, FALSE, "ExtensionError")]
           /\ UNCHANGED settings
     /\ UNCHANGED <<outsideRegistry, extensions, menuItems, extLoading, extError, opsIssued, incarnation>>

(***************************************************************************)
(* useExtensions and the ExtensionManager component that drives it.        *)
(***************************************************************************)
FailMessage(op) ==
  CASE op = "install" -> "Failed to install extension"
    [] op = "uninstall" -> "Failed to uninstall extension"
    [] op = "enable" -> "Failed to enable extension"
    [] op = "disable" -> "Failed to disable extension"
    [] op = "refresh" -> "Failed to load extensions"

NewCall(op, id) == [IdleCall EXCEPT !.op = op, !.id = id, !.phase = "sent"]

\* A new call takes the first free slot of the table.
FirstFreeSlot(k) ==
  /\ calls[k].phase = "idle"
  /\ \A j \in 1..(k - 1) : calls[j].phase # "idle"

\* The first call of refreshExtensions: listExtensions().
RefreshCall == [IdleCall EXCEPT !.op = "refresh", !.phase = "listSent"]

\* ExtensionManager renders the table and the buttons only when the hook is
\* neither loading nor in error.
TableShown == ~extLoading /\ extError = NoError

\* setExtensions(prev => prev.map(ext => ext.id === id ? {...ext, enabled} : ext))
SetEnabled(list, id, flag) ==
  [i \in 1..Len(list) |->
     IF list[i].id = id THEN [list[i] EXCEPT !.enabled = flag] ELSE list[i]]

\* ExtensionManager.handleToggleEnabled on row i up to the first await.
handleToggleEnabled(k, i) ==
  /\ TableShown
  /\ FirstFreeSlot(k)
  /\ opsIssued < MaxOps
  /\ opsIssued' = opsIssued + 1
  /\ i \in 1..Len(extensions)
  /\ extError' = NoError
  /\ calls' = [calls EXCEPT ![k] =
                 NewCall(IF extensions[i].enabled THEN "disable" ELSE "enable",
                         extensions[i].id)]
  /\ UNCHANGED <<outsideRegistry, extensions, menuItems, extLoading, registryVars>>

\* ExtensionManager.handleUninstall on row i up to the first await.
handleUninstall(k, i) ==
  /\ TableShown
  /\ FirstFreeSlot(k)
  /\ opsIssued < MaxOps
  /\ opsIssued' = opsIssued + 1
  /\ i \in 1..Len(extensions)
  /\ extError' = NoError
  /\ calls' = [calls EXCEPT ![k] = NewCall("uninstall", extensions[i].id)]
  /\ UNCHANGED <<outsideRegistry, extensions, menuItems, extLoading, registryVars>>

\* ExtensionManager.handleInstall with the manifest of extension id.
handleInstall(k, id) ==
  /\ TableShown
  /\ FirstFreeSlot(k)
  /\ opsIssued < MaxOps
  /\ opsIssued' = opsIssued + 1
  /\ extError' = NoError
  /\ calls' = [calls EXCEPT ![k] = NewCall("install", id)]
  /\ UNCHANGED <<outsideRegistry, extensions, menuItems, extLoading, registryVars>>

\* refreshExtensions from the Refresh button or the Retry button of the error view.
refreshExtensions(k) ==
  /\ ~extLoading
  /\ FirstFreeSlot(k)
  /\ opsIssued < MaxOps
  /\ opsIssued' = opsIssued + 1
  /\ extLoading' = TRUE
  /\ extError' = NoError
  /\ calls' = [calls EXCEPT ![k] = RefreshCall]
  /\ UNCHANGED <<outsideRegistry, extensions, menuItems, registryVars>>

\* The continuation of handleInstallExtension / handleUninstallExtension /
\* handleEnableExtension / handleDisableExtension after the awaited invoke.
HandleReply(k) ==
  LET c == calls[k]
  IN /\ c.phase = "replied"
     /\ c.op \in MutatingOps
     /\ IF ~c.ok
        THEN /\ extError' = FailMessage(c.op)
             /\ calls' = [calls EXCEPT ![k] = IdleCall]
             /\ UNCHANGED <<extensions, extLoading>>
        ELSE IF c.op \in {"enable", "disable"}
        THEN /\ extensions' = SetEnabled(extensions, c.id, c.op = "enable")
             /\ calls' = [calls EXCEPT ![k] = IdleCall]
             /\ UNCHANGED <<extError, extLoading>>
        ELSE /\ extLoading' = TRUE
             /\ extError' = NoError
             /\ calls' = [calls EXCEPT ![k] = RefreshCall]
             /\ UNCHANGED extensions
     /\ UNCHANGED <<outsideRegistry, menuItems, opsIssued, registryVars>>

\* list_extensions answers; refreshExtensions goes on to getExtensionMenuItems().
ListExtensionsReply(k) ==
  LET c == calls[k]
  IN /\ c.phase = "listSent"
     /\ \/ calls' = [calls EXCEPT ![k] = [c EXCEPT !.phase = "menuSent", !.list = BackendList]]
        \/ calls' = [calls EXCEPT ![k] = Reply(c, FALSE, "IOFailure")]
     /\ UNCHANGED <<outsideRegistry, extensions, menuItems, extLoading, extError, opsIssued, registryVars>>

\* get_extension_menu_items answers.
MenuItemsReply(k) ==
  LET c == calls[k]
  IN /\ c.phase = "menuSent"
     /\ calls' = [calls EXCEPT ![k] = [Reply(c, TRUE, "none") EXCEPT !.menu = BackendMenuItems]]
     /\ UNCHANGED <<outsideRegistry, extensions, menuItems, extLoading, extError, opsIssued, registryVars>>

\* The rest of refreshExtensions: both setters, or the catch, then finally.
RefreshDone(k) ==
  LET c == calls[k]
  IN /\ c.phase = "replied"
     /\ c.op = "refresh"
     /\ IF c.ok
        THEN /\ extensions' = c.list
             /\ menuItems' = c.menu
             /\ UNCHANGED extError
        ELSE /\ extError' = FailMessage("refresh")
             /\ UNCHANGED <<extensions, menuItems>>
     /\ extLoading' = FALSE
     /\ calls' = [calls EXCEPT ![k] = IdleCall]
     /\ UNCHANGED <<outsideRegistry, opsIssued, registryVars>>

\* After mount: the effect has called refreshExtensions.
InitRegistry ==
  /\ segs1 = <<0>> /\ segs2 = <<0>>
  /\ v1 = JoinDots(segs1) /\ v2 = JoinDots(segs2)
  /\ verPc = "input" /\ verResult = 0
  /\ storeExtension = [id |-> "e1", version |-> v1]
  /\ updateAvailable = FALSE
  /\ extensions = <<>>
  /\ menuItems = {}
  /\ extLoading = TRUE
  /\ extError = NoError
  /\ calls = [slot \in 1..MaxCalls |-> IF slot = 1 THEN RefreshCall ELSE IdleCall]
  /\ opsIssued = 0
  /\ lifecycle = [id \in ExtIds |-> "Discovered"]
  /\ incarnation = [id \in ExtIds |-> 1]
  /\ lastEdge = [id \in ExtIds |-> NoEdge]
  /\ hooks = [name \in HookNames |-> <<>>]
  /\ regLog = <<>>
  /\ hookCall = NoHookCall
  /\ manifestRev = [id \in ExtIds |-> 1]
  /\ granted = [id \in ExtIds |-> {}]
  /\ lastGate = NoGateCall
  /\ NoSettings
  /\ NoManifest
  /\ NoSourcePage
  /\ NoFilterPage
  /\ StoreUnmounted

NextRegistry ==
  \E k \in 1..MaxCalls :
    \/ \E i \in 1..Cardinality(ExtIds) : handleToggleEnabled(k, i)
    \/ \E i \in 1..Cardinality(ExtIds) : handleUninstall(k, i)
    \/ \E id \in ExtIds : handleInstall(k, id)
    \/ refreshExtensions(k)
    \/ BackendBegin(k)
    \/ BackendReject(k)
    \/ BackendFinish(k)
    \/ HandleReply(k)
    \/ ListExtensionsReply(k)
    \/ MenuItemsReply(k)
    \/ RefreshDone(k)

SpecRegistry == InitRegistry /\ [][NextRegistry]_vars

\* The manager has loaded its list: the last extension is installed and
\* enabled and shows its menu item.
InitManager ==
  /\ segs1 = <<0>> /\ segs2 = <<0>>
  /\ v1 = JoinDots(segs1) /\ v2 = JoinDots(segs2)
  /\ verPc = "input" /\ verResult = 0
  /\ storeExtension = [id |-> "e1", version |-> v1]
  /\ updateAvailable = FALSE
  /\ extLoading = FALSE
  /\ extError = NoError
  /\ calls = [slot \in 1..MaxCalls |-> IdleCall]
  /\ opsIssued = 0
  /\ lifecycle = [id \in ExtIds |-> IF id = ExtOrder[Len(ExtOrder)] THEN "Enabled"
                                    ELSE "Discovered"]
  /\ incarnation = [id \in ExtIds |-> 1]
  /\ lastEdge = [id \in ExtIds |-> IF id = ExtOrder[Len(ExtOrder)]
                                  THEN <<"Enabling", "Enabled">> ELSE NoEdge]
  /\ extensions = BackendList
  /\ menuItems = BackendMenuItems
  /\ hooks = [name \in HookNames |-> <<>>]
  /\ regLog = <<>>
  /\ hookCall = NoHookCall
  /\ manifestRev = [id \in ExtIds |-> 1]
  /\ granted = [id \in ExtIds |-> {}]
  /\ lastGate = NoGateCall
  /\ NoSettings
  /\ NoManifest
  /\ NoSourcePage
  /\ NoFilterPage
  /\ StoreUnmounted

SpecManager == InitManager /\ [][NextRegistry]_vars

(***************************************************************************)
(* ExtensionRuntime of the design document: registerHook and callHook.     *)
(***************************************************************************)
\* The extension whose manifest lists the handler's hook.
HandlerOwner(h) == IF h = "h2" THEN "e2" ELSE "e1"

\* Variant that puts a new hook in front of the list.
PushHook_unshift(list, hook) == <<hook>> \o list

\* this.hooks.get(hook.name)!.push(hook)
PushHook(list, hook) == Append(list, hook)

registerHook(name, h) ==
  LET hook == [name |-> name, handler |-> h]
  IN /\ Len(regLog) < MaxHooks
     /\ hooks' = [hooks EXCEPT ![name] = PushHook(@, hook)]
     /\ regLog' = Append(regLog, hook)
     /\ UNCHANGED <<hookCall, outsideRuntime>>

\* Promise.all over the handler promises: rejected with the first rejection,
\* fulfilled with the values in index order once every promise is fulfilled.
PromiseAll(c, outcomes, i, ok) ==
  IF c.status # "pending" THEN c
  ELSE IF ~ok
  THEN [c EXCEPT !.outcomes = outcomes, !.status = "rejected",
                 !.error = c.snapshot[i].handler]
  ELSE IF \A j \in 1..Len(outcomes) : outcomes[j] = "ok"
  THEN [c EXCEPT !.outcomes = outcomes, !.status = "resolved",
                 !.result = [j \in 1..Len(outcomes) |-> c.snapshot[j].handler]]
  ELSE [c EXCEPT !.outcomes = outcomes]

\* callHook(name, params) up to its return: hooks.map(...) calls every handler
\* of the list in order, Promise.all waits for them.
callHook(name) ==
  LET list == hooks[name]
  IN /\ hookCall.status # "pending"
     /\ hookCall' =
          [status |-> IF Len(list) = 0 THEN "resolved" ELSE "pending",
           name |-> name,
           snapshot |-> list,
           started |-> [i \in 1..Len(list) |-> list[i].handler],
           outcomes |-> [i \in 1..Len(list) |-> "pending"],
           completion |-> <<>>,
           result |-> <<>>,
           error |-> "none",
           enabledAtDispatch |-> {id \in ExtIds : BackendEnabled(id)}]
     /\ UNCHANGED <<hooks, regLog, outsideRuntime>>

\* The promise of handler i of the call settles, in any order.
HandlerSettles(i, ok) ==
  /\ i \in 1..Len(hookCall.outcomes)
  /\ hookCall.outcomes[i] = "pending"
  /\ hookCall.status = "pending"
  /\ hookCall' = PromiseAll([hookCall EXCEPT !.completion = Append(@, i)],
                            [hookCall.outcomes EXCEPT ![i] = IF ok THEN "ok" ELSE "err"],
                            i, ok)
  /\ UNCHANGED <<hooks, regLog, outsideRuntime>>

\* Both extensions installed and enabled, the manager showing them.
InitRuntime ==
  /\ segs1 = <<0>> /\ segs2 = <<0>>
  /\ v1 = JoinDots(segs1) /\ v2 = JoinDots(segs2)
  /\ verPc = "input" /\ verResult = 0
  /\ storeExtension = [id |-> "e1", version |-> v1]
  /\ updateAvailable = FALSE
  /\ lifecycle = [id \in ExtIds |-> "Enabled"]
  /\ incarnation = [id \in ExtIds |-> 1]
  /\ lastEdge = [id \in ExtIds |-> <<"Enabling", "Enabled">>]
  /\ extensions = BackendList
  /\ menuItems = BackendMenuItems
  /\ extLoading = FALSE
  /\ extError = NoError
  /\ calls = [slot \in 1..MaxCalls |-> IdleCall]
  /\ opsIssued = MaxOps - 2
  /\ hooks = [name \in HookNames |-> <<>>]
  /\ regLog = <<>>
  /\ hookCall = NoHookCall
  /\ manifestRev = [id \in ExtIds |-> 1]
  /\ granted = [id \in ExtIds |-> {}]
  /\ lastGate = NoGateCall
  /\ NoSettings
  /\ NoManifest
  /\ NoSourcePage
  /\ NoFilterPage
  /\ StoreUnmounted

NextRuntime ==
  \/ \E name \in HookNames, h \in Handlers : registerHook(name, h)
  \/ \E name \in HookNames : callHook(name)
  \/ \E i \in 1..MaxHooks, ok \in BOOLEAN : HandlerSettles(i, ok)
  \/ \E k \in 1..MaxCalls :
       \/ \E i \in 1..Cardinality(ExtIds) : handleToggleEnabled(k, i)
       \/ BackendBegin(k)
       \/ BackendFinish(k)
       \/ HandleReply(k)

SpecRuntime == InitRuntime /\ [][NextRuntime]_vars

(***************************************************************************)
(* Permission gate of the backend: request_grant, revoke, authorize, and   *)
(* the manifest replacement of an update.                                  *)
(***************************************************************************)
PermissionKinds == {"filesystem", "network", "database", "ui", "native"}

ManifestRevs == {1, 2}

\* manifest.permissions of the revisions of each extension's manifest.
ManifestPermissions(id, rev) ==
  IF id = "e1"
  THEN (IF rev = 1 THEN {"filesystem", "network"} ELSE {"network", "ui"})
  ELSE (IF rev = 1 THEN {"ui"} ELSE {"ui", "database"})

Declared(id) == ManifestPermissions(id, manifestRev[id])

\* Variant that grants whatever is asked for.
GrantAllowed_any(id, p) == TRUE

\* A grant is accepted only for a permission the manifest declares.
GrantAllowed(id, p) == p \in Declared(id)

request_grant(id, p) ==
  /\ granted' = IF GrantAllowed(id, p) THEN [granted EXCEPT ![id] = @ \cup {p}] ELSE granted
  /\ lastGate' = [op |-> "request_grant", id |-> id, permission |-> p,
                  ok |-> GrantAllowed(id, p)]
  /\ UNCHANGED <<manifestRev, outsideGate>>

revoke(id, p) ==
  /\ granted' = [granted EXCEPT ![id] = @ \ {p}]
  /\ lastGate' = [op |-> "revoke", id |-> id, permission |-> p, ok |-> TRUE]
  /\ UNCHANGED <<manifestRev, outsideGate>>

authorize(id, p) ==
  /\ lastGate' = [op |-> "authorize", id |-> id, permission |-> p,
                  ok |-> (p \in Declared(id) /\ p \in granted[id])]
  /\ UNCHANGED <<manifestRev, granted, outsideGate>>

\* Update from the store: the manifest is replaced, the grants that remain
\* valid are kept.
updateManifest(id, rev) ==
  /\ rev # manifestRev[id]
  /\ manifestRev' = [manifestRev EXCEPT ![id] = rev]
  /\ granted' = [granted EXCEPT ![id] = @ \cap ManifestPermissions(id, rev)]
  /\ lastGate' = [op |-> "update", id |-> id, permission |-> "none", ok |-> TRUE]
  /\ UNCHANGED outsideGate

InitGate ==
  /\ segs1 = <<0>> /\ segs2 = <<0>>
  /\ v1 = JoinDots(segs1) /\ v2 = JoinDots(segs2)
  /\ verPc = "input" /\ verResult = 0
  /\ storeExtension = [id |-> "e1", version |-> v1]
  /\ updateAvailable = FALSE
  /\ lifecycle = [id \in ExtIds |-> "Installed"]
  /\ incarnation = [id \in ExtIds |-> 1]
  /\ lastEdge = [id \in ExtIds |-> <<"Installing", "Installed">>]
  /\ extensions = BackendList
  /\ menuItems = BackendMenuItems
  /\ extLoading = FALSE
  /\ extError = NoError
  /\ calls = [slot \in 1..MaxCalls |-> IdleCall]
  /\ opsIssued = 0
  /\ hooks = [name \in HookNames |-> <<>>]
  /\ regLog = <<>>
  /\ hookCall = NoHookCall
  /\ manifestRev = [id \in ExtIds |-> 1]
  /\ granted = [id \in ExtIds |-> {}]
  /\ lastGate = NoGateCall
  /\ NoSettings
  /\ NoManifest
  /\ NoSourcePage
  /\ NoFilterPage
  /\ StoreUnmounted

NextGate ==
  \E id \in ExtIds :
    \/ \E p \in PermissionKinds : request_grant(id, p)
    \/ \E p \in PermissionKinds : revoke(id, p)
    \/ \E p \in PermissionKinds : authorize(id, p)
    \/ \E rev \in ManifestRevs : updateManifest(id, rev)

SpecGate == InitGate /\ [][NextGate]_vars

(***************************************************************************)
(* Store aggregator behind fetch_store_extensions and list_store_sources:  *)
(* an unchanged catalog of catalogSize entries, numbered 1..catalogSize.   *)
(***************************************************************************)
CatalogSizes == {0, PAGE_SIZE, PAGE_SIZE + 1, 2 * PAGE_SIZE, MaxCatalog}

SortOptions == {"Name", "Newest"}

SourceIds == {"s1", "s2", "s3"}

SourceNo(id) == IF id = "s1" THEN 1 ELSE IF id = "s2" THEN 2 ELSE 3

\* What each source lists: the entries divisible by four are listed by both.
Lists(s, i) ==
  IF s = "s1" THEN i % 2 = 1 \/ i % 4 = 0 ELSE IF s = "s2" THEN i % 2 = 0 ELSE i % 5 = 0

MatchesSearch(i, search) == search = Undefined \/ i % 3 # 0

Range(seq) == {seq[i] : i \in 1..Len(seq)}

\* Lower priority number first, ties by source id.
Precedes(a, b) ==
  a.priority < b.priority \/ (a.priority = b.priority /\ SourceNo(a.id) < SourceNo(b.id))

RECURSIVE InsertSource(_, _)
InsertSource(sorted, x) ==
  IF sorted = <<>> THEN <<x>>
  ELSE IF Precedes(x, Head(sorted)) THEN <<x>> \o sorted
       ELSE <<Head(sorted)>> \o InsertSource(Tail(sorted), x)

RECURSIVE InPriorityOrder(_)
InPriorityOrder(list) ==
  IF list = <<>> THEN <<>> ELSE InsertSource(InPriorityOrder(Tail(list)), Head(list))

\* list_store_sources: the configured sources in priority order.
list_store_sources == InPriorityOrder(backendSources)

\* The enabled sources a query fans out to, highest priority first.
QueriedSources(req) ==
  SelectSeq(InPriorityOrder(backendSources),
            LAMBDA s : s.enabled /\ s.id \in Range(req.source_ids))

\* The result of one source: its entries that pass the filters.
PerSource(s, req, n) ==
  SelectSeq([i \in 1..n |-> [id |-> i, source_id |-> s]],
            LAMBDA e : Lists(s, e.id) /\ MatchesSearch(e.id, req.search))

RECURSIVE PerSourceResults(_, _, _)
PerSourceResults(sources, req, n) ==
  IF sources = <<>> THEN <<>>
  ELSE <<PerSource(Head(sources).id, req, n)>> \o PerSourceResults(Tail(sources), req, n)

\* Variant in which a later result replaces an earlier entry of the same id.
RECURSIVE Deduplicate_last(_)
Deduplicate_last(results) ==
  IF results = <<>> THEN {}
  ELSE LET rest == Deduplicate_last(Tail(results))
           taken == {e.id : e \in rest}
       IN rest \cup {e \in Range(Head(results)) : e.id \notin taken}

\* The per-source results taken together, in the order given, without the
\* entries whose id an earlier result already has.
RECURSIVE Deduplicate(_)
Deduplicate(results) ==
  IF results = <<>> THEN {}
  ELSE LET first == Range(Head(results))
           taken == {e.id : e \in first}
       IN first \cup {e \in Deduplicate(Tail(results)) : e.id \notin taken}

\* The merged entries a query selects, in the order of their numbers.
Matching(req, n) ==
  LET kept == Deduplicate(PerSourceResults(QueriedSources(req), req, n))
      ids == {e.id : e \in kept}
      InOrder == SelectSeq([i \in 1..n |-> i], LAMBDA i : i \in ids)
  IN [k \in 1..Len(InOrder) |->
        [id |-> InOrder[k],
         source_id |-> CHOOSE s \in SourceIds : [id |-> InOrder[k], source_id |-> s] \in kept]]

Reverse(seq) == [i \in 1..Len(seq) |-> seq[Len(seq) + 1 - i]]

\* The merged, filtered and sorted result set of a query: the entries are
\* numbered in name order, and in publish order.
Catalog(req, n) ==
  IF req.sort = "Name" THEN Matching(req, n) ELSE Reverse(Matching(req, n))

PageOf(cat, page, limit) ==
  IF page * limit >= Len(cat) THEN <<>>
  ELSE SubSeq(cat, page * limit + 1, Min(Len(cat), (page + 1) * limit))

fetch_store_extensions(req, n) == PageOf(Catalog(req, n), req.page, req.limit)

(***************************************************************************)
(* useStoreSources, as far as the store hook uses it.                      *)
(***************************************************************************)
RECURSIVE InsertByPriority(_, _)
InsertByPriority(sorted, x) ==
  IF sorted = <<>> THEN <<x>>
  ELSE IF Head(sorted).priority <= x.priority
       THEN <<Head(sorted)>> \o InsertByPriority(Tail(sorted), x)
       ELSE <<x>> \o sorted

\* newSources.sort((a, b) => a.priority - b.priority)
RECURSIVE SortByPriority(_)
SortByPriority(list) ==
  IF list = <<>> THEN <<>>
  ELSE InsertByPriority(SortByPriority(SubSeq(list, 1, Len(list) - 1)), list[Len(list)])

getEnabledSources(sources) == SelectSeq(sources, LAMBDA s : s.enabled)

(***************************************************************************)
(* useExtensionStore.  An action is one event handler or one continuation  *)
(* after an await, together with the render and the effects it causes.     *)
(***************************************************************************)
Keep == "keep"

\* Arguments of setFilters: a key that is absent from the Partial is Keep.
PartialFilters ==
  { [search |-> Keep, source_ids |-> Keep],
    [search |-> "a", source_ids |-> Keep],
    [search |-> Keep, source_ids |-> "s1"],
    [search |-> Keep, source_ids |-> Undefined] }

\* { ...prev, ...newFilters }
MergeFilters(prev, newFilters) ==
  [search |-> IF newFilters.search = Keep THEN prev.search ELSE newFilters.search,
   source_ids |-> IF newFilters.source_ids = Keep THEN prev.source_ids
                  ELSE newFilters.source_ids]

\* The arguments fetchExtensions(reset) passes to fetchStoreExtensions when
\* its closure holds cp, f, so and the sources of the render it was made in.
Request(reset, cp, f, so, sources) ==
  LET enabledSources == getEnabledSources(sources)
  IN [reset |-> reset,
      page |-> IF reset THEN 0 ELSE cp,
      search |-> f.search,
      source_ids |-> IF f.source_ids = Undefined
                     THEN [i \in 1..Len(enabledSources) |-> enabledSources[i].id]
                     ELSE <<f.source_ids>>,
      sort |-> so,
      limit |-> PAGE_SIZE]

\* The fetches started by the two effects after a render with state cp, f,
\* so, sources; changed says whether fetchExtensions (currentPage, filters,
\* sort, getEnabledSources) differs from the render before.  The initial-load
\* effect of variant A has no dependencies and runs on mount only.
EffectFetches(changed, cp, f, so, sources) ==
  LET r == Request(TRUE, cp, f, so, sources)
  IN (IF changed /\ variant = "B" THEN <<r>> ELSE <<>>)
       \o (IF changed /\ cp = 0 THEN <<r>> ELSE <<>>)

\* Render and effects at the end of an event; every fetch that starts sets
\* loading and clears error before it awaits.
Commit(changed, rest, loadingAfter, errorAfter) ==
  LET started == EffectFetches(changed, currentPage', filters', sort', hookSources')
  IN /\ inflight' = rest \o started
     /\ Len(inflight') <= MaxInFlight
     /\ storeLoading' = IF started # <<>> THEN TRUE ELSE loadingAfter
     /\ storeError' = IF started # <<>> THEN NoError ELSE errorAfter

RemoveAt(seq, i) == SubSeq(seq, 1, i - 1) \o SubSeq(seq, i + 1, Len(seq))

\* Variant that drops what was listed before.
AppendPage_replace(prev, newExtensions) == newExtensions

\* [...prev, ...newExtensions]
AppendPage(prev, newExtensions) == prev \o newExtensions

\* The functional updates setFiltersState(prev => ({ ...prev, ...newFilters }))
\* queued by the setFilters calls of one event, applied in call order.
RECURSIVE MergeAll(_, _)
MergeAll(prev, updates) ==
  IF updates = <<>> THEN prev
  ELSE MergeAll(MergeFilters(prev, Head(updates)), Tail(updates))

\* The setFilters calls made during one event, then the render and effects.
setFiltersCalls(updates) ==
  /\ storeOps < MaxStoreOps
  /\ storeOps' = storeOps + 1
  /\ filters' = MergeAll(filters, updates)
  /\ currentPage' = 0
  /\ storeExtensions' = <<>>
  /\ hasMore' = TRUE
  /\ listOrigin' = <<>>
  /\ UNCHANGED <<variant, catalogSize, sort, hookSources, sourcesPc>>
  /\ Commit(TRUE, inflight, storeLoading, storeError)

setFilters(newFilters) ==
  /\ setFiltersCalls(<<newFilters>>)
  /\ UNCHANGED outsideStore

setSort(newSort) ==
  /\ storeOps < MaxStoreOps
  /\ storeOps' = storeOps + 1
  /\ sort' = newSort
  /\ currentPage' = 0
  /\ storeExtensions' = <<>>
  /\ hasMore' = TRUE
  /\ listOrigin' = <<>>
  /\ UNCHANGED <<variant, catalogSize, filters, hookSources, sourcesPc, outsideStore>>
  /\ Commit(newSort # sort \/ currentPage # 0, inflight, storeLoading, storeError)

\* fetchExtensions up to its await.
fetchExtensions(reset) ==
  /\ storeOps < MaxStoreOps
  /\ storeOps' = storeOps + 1
  /\ Len(inflight) < MaxInFlight
  /\ inflight' = Append(inflight, Request(reset, currentPage, filters, sort, hookSources))
  /\ storeLoading' = TRUE
  /\ storeError' = NoError
  /\ UNCHANGED <<variant, catalogSize, storeExtensions, hasMore, currentPage, filters, sort,
                 hookSources, sourcesPc, listOrigin, outsideStore>>

loadMore ==
  /\ ~storeLoading /\ hasMore
  /\ fetchExtensions(FALSE)

\* fetchExtensions after its await, when fetchStoreExtensions resolved.
FetchResolve(i) ==
  LET req == inflight[i]
      newExtensions == fetch_store_extensions(req, catalogSize)
  IN /\ storeExtensions' = IF req.reset THEN newExtensions
                           ELSE AppendPage(storeExtensions, newExtensions)
     /\ currentPage' = IF req.reset THEN 1 ELSE currentPage + 1
     /\ hasMore' = (Len(newExtensions) = PAGE_SIZE)
     /\ listOrigin' = IF req.reset THEN <<req>> ELSE Append(listOrigin, req)
     /\ UNCHANGED <<variant, catalogSize, filters, sort, hookSources, sourcesPc, storeOps,
                    outsideStore>>
     /\ Commit(currentPage' # currentPage, RemoveAt(inflight, i), FALSE, storeError)

\* Variant that handles the failure like an empty page.
FetchReject_empty(i) ==
  /\ inflight' = RemoveAt(inflight, i)
  /\ storeError' = "NetworkFailure"
  /\ storeLoading' = FALSE
  /\ storeExtensions' = IF inflight[i].reset THEN <<>> ELSE storeExtensions
  /\ hasMore' = FALSE
  /\ UNCHANGED <<variant, catalogSize, currentPage, filters, sort,
                 hookSources, sourcesPc, listOrigin, storeOps, outsideStore>>

\* ... and when it rejected.
FetchReject(i) ==
  /\ inflight' = RemoveAt(inflight, i)
  /\ storeError' = "NetworkFailure"
  /\ storeLoading' = FALSE
  /\ UNCHANGED <<variant, catalogSize, storeExtensions, hasMore, currentPage, filters, sort,
                 hookSources, sourcesPc, listOrigin, storeOps, outsideStore>>

\* fetchSources of the hook's useStoreSources instance resolves: the new
\* sources array gives getEnabledSources, and so fetchExtensions, a new identity.
SourcesResolve ==
  /\ sourcesPc = "sent"
  /\ sourcesPc' = "done"
  /\ hookSources' = SortByPriority(list_store_sources)
  /\ UNCHANGED <<variant, catalogSize, storeExtensions, hasMore, currentPage, filters, sort,
                 listOrigin, storeOps, outsideStore>>
  /\ Commit(TRUE, inflight, storeLoading, storeError)

SourcesReject ==
  /\ sourcesPc = "sent"
  /\ sourcesPc' = "failed"
  /\ UNCHANGED <<variant, catalogSize, storeExtensions, storeLoading, storeError, hasMore,
                 currentPage, filters, sort, hookSources, inflight, listOrigin, storeOps,
                 outsideStore>>

\* The state after mount: both effects have called fetchExtensions(true) with
\* no sources loaded yet, and useStoreSources has called fetchSources.
InitStore ==
  /\ segs1 = <<0>> /\ segs2 = <<0>>
  /\ v1 = JoinDots(segs1) /\ v2 = JoinDots(segs2)
  /\ verPc = "input" /\ verResult = 0
  /\ storeExtension = [id |-> "e1", version |-> v1]
  /\ updateAvailable = FALSE
  /\ extensions = <<>>
  /\ menuItems = {}
  /\ extLoading = FALSE
  /\ extError = NoError
  /\ calls = [slot \in 1..MaxCalls |-> IdleCall]
  /\ opsIssued = 0
  /\ lifecycle = [id \in ExtIds |-> "Discovered"]
  /\ incarnation = [id \in ExtIds |-> 1]
  /\ lastEdge = [id \in ExtIds |-> NoEdge]
  /\ hooks = [name \in HookNames |-> <<>>]
  /\ regLog = <<>>
  /\ hookCall = NoHookCall
  /\ manifestRev = [id \in ExtIds |-> 1]
  /\ granted = [id \in ExtIds |-> {}]
  /\ lastGate = NoGateCall
  /\ NoSettings
  /\ NoManifest
  /\ NoSourcePage
  /\ NoFilterPage
  /\ variant \in {"A", "B"}
  /\ catalogSize \in CatalogSizes
  /\ storeExtensions = <<>>
  /\ storeLoading = TRUE
  /\ storeError = NoError
  /\ hasMore = TRUE
  /\ currentPage = 0
  /\ filters = NoFilters
  /\ sort = "Name"
  /\ hookSources = <<>>
  /\ sourcesPc = "sent"
  /\ inflight = << Request(TRUE, 0, NoFilters, "Name", <<>>),
                   Request(TRUE, 0, NoFilters, "Name", <<>>) >>
  /\ listOrigin = <<>>
  /\ storeOps = 0

NextStore ==
  \/ \E newFilters \in PartialFilters : setFilters(newFilters)
  \/ \E newSort \in SortOptions : setSort(newSort)
  \/ loadMore
  \/ fetchExtensions(TRUE)
  \/ \E i \in 1..Len(inflight) : FetchResolve(i)
  \/ \E i \in 1..Len(inflight) : FetchReject(i)
  \/ SourcesResolve
  \/ SourcesReject

SpecStore == InitStore /\ [][NextStore]_vars

\* The store after its first page has arrived: the sources are loaded, the
\* fetch the effects started for the current filters and sort has resolved
\* and nothing is in flight.
InitLoadMore ==
  /\ segs1 = <<0>> /\ segs2 = <<0>>
  /\ v1 = JoinDots(segs1) /\ v2 = JoinDots(segs2)
  /\ verPc = "input" /\ verResult = 0
  /\ storeExtension = [id |-> "e1", version |-> v1]
  /\ updateAvailable = FALSE
  /\ extensions = <<>>
  /\ menuItems = {}
  /\ extLoading = FALSE
  /\ extError = NoError
  /\ calls = [slot \in 1..MaxCalls |-> IdleCall]
  /\ opsIssued = 0
  /\ lifecycle = [id \in ExtIds |-> "Discovered"]
  /\ incarnation = [id \in ExtIds |-> 1]
  /\ lastEdge = [id \in ExtIds |-> NoEdge]
  /\ hooks = [name \in HookNames |-> <<>>]
  /\ regLog = <<>>
  /\ hookCall = NoHookCall
  /\ manifestRev = [id \in ExtIds |-> 1]
  /\ granted = [id \in ExtIds |-> {}]
  /\ lastGate = NoGateCall
  /\ NoSettings
  /\ NoManifest
  /\ NoSourcePage
  /\ NoFilterPage
  /\ variant \in {"A", "B"}
  /\ catalogSize \in CatalogSizes
  /\ filters \in {NoFilters, [search |-> "a", source_ids |-> Undefined]}
  /\ sort \in SortOptions
  /\ hookSources = SortByPriority(list_store_sources)
  /\ sourcesPc = "done"
  /\ listOrigin = <<Request(TRUE, 0, filters, sort, hookSources)>>
  /\ storeExtensions = fetch_store_extensions(listOrigin[1], catalogSize)
  /\ storeLoading = FALSE
  /\ storeError = NoError
  /\ hasMore = (Len(storeExtensions) = PAGE_SIZE)
  /\ currentPage = 1
  /\ inflight = <<>>
  /\ storeOps = 0

\* The user of the hook only asks for more, and the catalog answers every
\* query.
NextLoadMore ==
  \/ loadMore
  \/ \E i \in 1..Len(inflight) : FetchResolve(i)

SpecLoadMore == InitLoadMore /\ [][NextLoadMore]_vars

(***************************************************************************)
(* The filter controls of ExtensionStorePage: the search box with its      *)
(* debounce timer, the source selection and Clear Filters.  The type       *)
(* selection is written like the source selection and is left out.         *)
(***************************************************************************)
SearchTexts == {"", "a"}
SourceChoices == {"all", "s1"}

\* searchQuery || undefined
SearchFilter(q) == IF q = "" THEN Undefined ELSE q

\* selectedSource === 'all' ? undefined : [selectedSource]
SourceFilter(choice) == IF choice = "all" THEN Undefined ELSE choice

\* The filters that say what the controls show.
Selections == [search |-> SearchFilter(searchQuery), source_ids |-> SourceFilter(selectedSource)]

\* { ...filters, key: value } with the filters of the render the effect
\* was created in.
WithKey(f, key, value) == [f EXCEPT ![key] = value]

\* The page after mount, with some text typed and some source chosen, every
\* effect run and the debounce timer fired: the hook has loaded page 0.
InitFilters ==
  /\ segs1 = <<0>> /\ segs2 = <<0>>
  /\ v1 = JoinDots(segs1) /\ v2 = JoinDots(segs2)
  /\ verPc = "input" /\ verResult = 0
  /\ storeExtension = [id |-> "e1", version |-> v1]
  /\ updateAvailable = FALSE
  /\ extensions = <<>>
  /\ menuItems = {}
  /\ extLoading = FALSE
  /\ extError = NoError
  /\ calls = [slot \in 1..MaxCalls |-> IdleCall]
  /\ opsIssued = 0
  /\ lifecycle = [id \in ExtIds |-> "Discovered"]
  /\ incarnation = [id \in ExtIds |-> 1]
  /\ lastEdge = [id \in ExtIds |-> NoEdge]
  /\ hooks = [name \in HookNames |-> <<>>]
  /\ regLog = <<>>
  /\ hookCall = NoHookCall
  /\ manifestRev = [id \in ExtIds |-> 1]
  /\ granted = [id \in ExtIds |-> {}]
  /\ lastGate = NoGateCall
  /\ NoSettings
  /\ NoManifest
  /\ NoSourcePage
  /\ searchQuery \in SearchTexts
  /\ selectedSource \in SourceChoices
  /\ timer = NoTimer
  /\ variant \in {"A", "B"}
  /\ catalogSize = PAGE_SIZE + 1
  /\ filters = Selections
  /\ sort = "Name"
  /\ hookSources = SortByPriority(list_store_sources)
  /\ sourcesPc = "done"
  /\ listOrigin = <<Request(TRUE, 0, filters, sort, hookSources)>>
  /\ storeExtensions = fetch_store_extensions(listOrigin[1], catalogSize)
  /\ storeLoading = FALSE
  /\ storeError = NoError
  /\ hasMore = (Len(storeExtensions) = PAGE_SIZE)
  /\ currentPage = 1
  /\ inflight = <<>>
  /\ storeOps = 0

\* onChange of the search box: the debounce effect clears the old timer and
\* sets a new one, whose callback holds the filters of this render.
handleSearchChange(q) ==
  /\ q # searchQuery
  /\ searchQuery' = q
  /\ timer' = [pending |-> TRUE, filters |-> filters, searchQuery |-> q]
  /\ UNCHANGED <<selectedSource, storeVars, outsideFilterPage>>

\* The 300 ms have passed.
DebounceFires ==
  /\ timer.pending
  /\ timer' = NoTimer
  /\ setFiltersCalls(<<WithKey(timer.filters, "search", SearchFilter(timer.searchQuery))>>)
  /\ UNCHANGED <<searchQuery, selectedSource, outsideFilterPage>>

\* onValueChange of the source select, and the source effect after the render.
handleSourceChange(choice) ==
  /\ choice # selectedSource
  /\ selectedSource' = choice
  /\ setFiltersCalls(<<WithKey(filters, "source_ids", SourceFilter(choice))>>)
  /\ UNCHANGED <<searchQuery, timer, outsideFilterPage>>

\* Clear Filters: the handler calls setFilters({}); after the render the
\* effects of the controls that changed run with the filters of that render.
clearFilters ==
  /\ searchQuery' = ""
  /\ selectedSource' = "all"
  /\ timer' = IF searchQuery # ""
              THEN [pending |-> TRUE, filters |-> filters, searchQuery |-> ""]
              ELSE timer
  /\ setFiltersCalls(<<[search |-> Keep, source_ids |-> Keep]>>
                       \o (IF selectedSource # "all"
                           THEN <<WithKey(filters, "source_ids", Undefined)>> ELSE <<>>))
  /\ UNCHANGED outsideFilterPage

NextFilters ==
  \/ \E q \in SearchTexts : handleSearchChange(q)
  \/ DebounceFires
  \/ \E choice \in SourceChoices : handleSourceChange(choice)
  \/ clearFilters
  \/ \E i \in 1..Len(inflight) : FetchResolve(i)

SpecFilters == InitFilters /\ [][NextFilters]_vars

(***************************************************************************)
(* The store page's useStoreSources instance and the backend's store       *)
(* source commands behind it.                                              *)
(***************************************************************************)
Priorities == {0, 1, 2}

SourceIdsOf(list) == {list[k].id : k \in 1..Len(list)}

EnabledIds(list) == {list[k].id : k \in {k \in 1..Len(list) : list[k].enabled}}

\* list.map((s) => (s.id === sourceId ? { ...s, enabled } : s))
SetSourceEnabled(list, id, enabled) ==
  [k \in 1..Len(list) |-> IF list[k].id = id THEN [list[k] EXCEPT !.enabled = enabled]
                          ELSE list[k]]

\* list.map((s) => (s.id === sourceId ? { ...s, priority } : s))
SetSourcePriority(list, id, priority) ==
  [k \in 1..Len(list) |-> IF list[k].id = id THEN [list[k] EXCEPT !.priority = priority]
                          ELSE list[k]]

SourceCall(op, id, priority) ==
  [op |-> op, id |-> id, priority |-> priority, phase |-> "sent", ok |-> TRUE, result |-> <<>>]

\* A function of useStoreSources up to its first await.
CallSource(c) ==
  /\ srcOps < MaxSrcOps
  /\ Len(sourceCalls) < MaxSourceCalls
  /\ srcOps' = srcOps + 1
  /\ sourceCalls' = Append(sourceCalls, c)
  /\ pageSources' = [pageSources EXCEPT !.error = NoError,
                                        !.loading = IF c.op = "fetch" THEN TRUE ELSE @]
  /\ UNCHANGED <<backendSources, storeVars, outsideSources>>

fetchSources == CallSource(SourceCall("fetch", "none", 0))

addSource(priority) == CallSource(SourceCall("add", "none", priority))

removeSource(sourceId) == CallSource(SourceCall("remove", sourceId, 0))

enableSource(sourceId) == CallSource(SourceCall("enable", sourceId, 0))

disableSource(sourceId) == CallSource(SourceCall("disable", sourceId, 0))

updatePriority(sourceId, priority) == CallSource(SourceCall("priority", sourceId, priority))

\* handleToggleSource of the page, on the k-th source it shows.
handleToggleSource(k) ==
  IF pageSources.sources[k].enabled THEN disableSource(pageSources.sources[k].id)
  ELSE enableSource(pageSources.sources[k].id)

\* The id add_store_source gives the new source.
FreshSourceId(list) ==
  CHOOSE id \in SourceIds \ SourceIdsOf(list) :
    \A other \in SourceIds \ SourceIdsOf(list) : SourceNo(id) <= SourceNo(other)

\* The backend answers source call i.
SourceBackend(i) ==
  LET c == sourceCalls[i]
      known == c.id \in SourceIdsOf(backendSources)
      reply(r) == [sourceCalls EXCEPT ![i] = r]
  IN /\ c.phase = "sent"
     /\ \/ /\ sourceCalls' = reply([c EXCEPT !.phase = "replied", !.ok = FALSE])
           /\ UNCHANGED backendSources
        \/ /\ c.op = "fetch"
           /\ sourceCalls' = reply([c EXCEPT !.phase = "replied", !.result = list_store_sources])
           /\ UNCHANGED backendSources
        \/ /\ c.op = "add" /\ SourceIds \ SourceIdsOf(backendSources) # {}
           /\ LET id == FreshSourceId(backendSources)
              IN /\ backendSources' = Append(backendSources,
                                             [id |-> id, enabled |-> TRUE, priority |-> c.priority])
                 /\ sourceCalls' = reply([c EXCEPT !.phase = "replied", !.id = id])
        \/ /\ c.op = "remove" /\ known
           /\ backendSources' = SelectSeq(backendSources, LAMBDA b : b.id # c.id)
           /\ sourceCalls' = reply([c EXCEPT !.phase = "replied"])
        \/ /\ c.op \in {"enable", "disable"} /\ known
           /\ backendSources' = SetSourceEnabled(backendSources, c.id, c.op = "enable")
           /\ sourceCalls' = reply([c EXCEPT !.phase = "replied"])
        \/ /\ c.op = "priority" /\ known
           /\ backendSources' = SetSourcePriority(backendSources, c.id, c.priority)
           /\ sourceCalls' = reply([c EXCEPT !.phase = "replied"])
     /\ UNCHANGED <<pageSources, srcOps, storeVars, outsideSources>>

SourceFailMessage(op) ==
  CASE op = "fetch" -> "Failed to fetch store sources"
    [] op = "add" -> "Failed to add store source"
    [] op = "remove" -> "Failed to remove store source"
    [] op = "enable" -> "Failed to enable store source"
    [] op = "disable" -> "Failed to disable store source"
    [] op = "priority" -> "Failed to update source priority"

\* The sources after the continuation of a call that succeeded.
SourcesAfter(prev, c) ==
  CASE c.op = "fetch" -> SortByPriority(c.result)
    [] c.op = "add" -> prev
    [] c.op = "remove" -> SelectSeq(prev, LAMBDA x : x.id # c.id)
    [] c.op \in {"enable", "disable"} -> SetSourceEnabled(prev, c.id, c.op = "enable")
    [] c.op = "priority" -> SortByPriority(SetSourcePriority(prev, c.id, c.priority))

\* The continuation after the await of source call i; addSource goes on to
\* fetchSources.
SourceReply(i) ==
  LET c == sourceCalls[i]
  IN /\ c.phase = "replied"
     /\ IF ~c.ok
        THEN /\ pageSources' = [pageSources EXCEPT !.error = SourceFailMessage(c.op),
                                                   !.loading = IF c.op = "fetch" THEN FALSE ELSE @]
             /\ sourceCalls' = RemoveAt(sourceCalls, i)
        ELSE IF c.op = "add"
        THEN /\ pageSources' = [pageSources EXCEPT !.error = NoError, !.loading = TRUE]
             /\ sourceCalls' = [sourceCalls EXCEPT ![i] = SourceCall("fetch", "none", 0)]
        ELSE /\ pageSources' = [pageSources EXCEPT
                                  !.sources = SourcesAfter(@, c),
                                  !.loading = IF c.op = "fetch" THEN FALSE ELSE @]
             /\ sourceCalls' = RemoveAt(sourceCalls, i)
     /\ UNCHANGED <<backendSources, srcOps, storeVars, outsideSources>>

\* fetchExtensionDetails: the arguments of the invoke.
fetchExtensionDetails(extensionId) ==
  [sourceId |-> "default", extensionId |-> extensionId]

\* handleCardClick of the page on a card it shows: getExtensionDetails up to
\* its await.
getExtensionDetails(id) ==
  /\ \E e \in Range(storeExtensions) : e.id = id
  /\ storeOps < MaxStoreOps
  /\ storeOps' = storeOps + 1
  /\ Len(detailCalls) < MaxInFlight
  /\ storeError' = NoError
  /\ detailCalls' = Append(detailCalls, fetchExtensionDetails(id))
  /\ UNCHANGED <<variant, catalogSize, storeExtensions, storeLoading, hasMore, currentPage,
                 filters, sort, hookSources, sourcesPc, inflight, listOrigin>>
  /\ UNCHANGED <<libVars, extHookVars, registryVars, runtimeVars, gateVars, settingCalls,
                 sourceVars, filterPageVars>>

\* fetch_extension_details: the source asked must be configured and list
\* the extension.
DetailsFound(c) ==
  \E b \in Range(backendSources) : b.id = c.sourceId /\ Lists(b.id, c.extensionId)

\* getExtensionDetails after its await: the details are returned to the
\* page, or the catch sets error.
DetailsReply(i) ==
  /\ detailCalls' = RemoveAt(detailCalls, i)
  /\ \/ DetailsFound(detailCalls[i]) /\ UNCHANGED storeError
     \/ storeError' = "Failed to fetch extension details"
  /\ UNCHANGED <<variant, catalogSize, storeExtensions, storeLoading, hasMore, currentPage,
                 filters, sort, hookSources, sourcesPc, inflight, listOrigin, storeOps>>
  /\ UNCHANGED <<libVars, extHookVars, registryVars, runtimeVars, gateVars, settingCalls,
                 sourceVars, filterPageVars>>

\* A useStoreSources instance has just been mounted and has called
\* fetchSources.
InitSources ==
  /\ segs1 = <<0>> /\ segs2 = <<0>>
  /\ v1 = JoinDots(segs1) /\ v2 = JoinDots(segs2)
  /\ verPc = "input" /\ verResult = 0
  /\ storeExtension = [id |-> "e1", version |-> v1]
  /\ updateAvailable = FALSE
  /\ extensions = <<>>
  /\ menuItems = {}
  /\ extLoading = FALSE
  /\ extError = NoError
  /\ calls = [slot \in 1..MaxCalls |-> IdleCall]
  /\ opsIssued = 0
  /\ lifecycle = [id \in ExtIds |-> "Discovered"]
  /\ incarnation = [id \in ExtIds |-> 1]
  /\ lastEdge = [id \in ExtIds |-> NoEdge]
  /\ hooks = [name \in HookNames |-> <<>>]
  /\ regLog = <<>>
  /\ hookCall = NoHookCall
  /\ manifestRev = [id \in ExtIds |-> 1]
  /\ granted = [id \in ExtIds |-> {}]
  /\ lastGate = NoGateCall
  /\ NoSettings
  /\ NoFilterPage
  /\ NoManifest
  /\ backendSources = BackendSources
  /\ pageSources = [sources |-> <<>>, loading |-> TRUE, error |-> NoError]
  /\ sourceCalls = <<SourceCall("fetch", "none", 0)>>
  /\ srcOps = 0
  /\ StoreUnmounted

NextSources ==
  \/ fetchSources
  \/ \E priority \in Priorities : addSource(priority)
  \/ \E sourceId \in SourceIdsOf(pageSources.sources) : removeSource(sourceId)
  \/ \E k \in 1..Len(pageSources.sources) : handleToggleSource(k)
  \/ \E sourceId \in SourceIdsOf(pageSources.sources), priority \in Priorities :
       updatePriority(sourceId, priority)
  \/ \E i \in 1..Len(sourceCalls) : SourceBackend(i)
  \/ \E i \in 1..Len(sourceCalls) : SourceReply(i)

SpecSources == InitSources /\ [][NextSources]_vars

\* The store page has just been mounted: the store hook as in InitStore, and
\* the page's useStoreSources has called fetchSources.
InitStorePage ==
  /\ segs1 = <<0>> /\ segs2 = <<0>>
  /\ v1 = JoinDots(segs1) /\ v2 = JoinDots(segs2)
  /\ verPc = "input" /\ verResult = 0
  /\ storeExtension = [id |-> "e1", version |-> v1]
  /\ updateAvailable = FALSE
  /\ extensions = <<>>
  /\ menuItems = {}
  /\ extLoading = FALSE
  /\ extError = NoError
  /\ calls = [slot \in 1..MaxCalls |-> IdleCall]
  /\ opsIssued = 0
  /\ lifecycle = [id \in ExtIds |-> "Discovered"]
  /\ incarnation = [id \in ExtIds |-> 1]
  /\ lastEdge = [id \in ExtIds |-> NoEdge]
  /\ hooks = [name \in HookNames |-> <<>>]
  /\ regLog = <<>>
  /\ hookCall = NoHookCall
  /\ manifestRev = [id \in ExtIds |-> 1]
  /\ granted = [id \in ExtIds |-> {}]
  /\ lastGate = NoGateCall
  /\ NoSettings
  /\ NoFilterPage
  /\ NoManifest
  /\ backendSources = BackendSources
  /\ pageSources = [sources |-> <<>>, loading |-> TRUE, error |-> NoError]
  /\ sourceCalls = <<SourceCall("fetch", "none", 0)>>
  /\ srcOps = 0
  /\ variant = "A"
  /\ catalogSize = 4
  /\ storeExtensions = <<>>
  /\ storeLoading = TRUE
  /\ storeError = NoError
  /\ hasMore = TRUE
  /\ currentPage = 0
  /\ filters = NoFilters
  /\ sort = "Name"
  /\ hookSources = <<>>
  /\ sourcesPc = "sent"
  /\ inflight = << Request(TRUE, 0, NoFilters, "Name", <<>>),
                   Request(TRUE, 0, NoFilters, "Name", <<>>) >>
  /\ listOrigin = <<>>
  /\ storeOps = 0

\* The user's clicks on the page, at most MaxPageOps of them.
PageClick(Handler) == srcOps + storeOps < MaxPageOps /\ Handler

NextStorePage ==
  \/ \E sourceId \in SourceIdsOf(pageSources.sources) : PageClick(removeSource(sourceId))
  \/ \E k \in 1..Len(pageSources.sources) : PageClick(handleToggleSource(k))
  \/ \E i \in 1..Len(sourceCalls) : SourceBackend(i)
  \/ \E i \in 1..Len(sourceCalls) : SourceReply(i)
  \/ \E newFilters \in PartialFilters : PageClick(setFilters(newFilters))
  \/ \E newSort \in SortOptions : PageClick(setSort(newSort))
  \/ PageClick(loadMore)
  \/ \E id \in 1..catalogSize : PageClick(getExtensionDetails(id))
  \/ \E i \in 1..Len(detailCalls) : DetailsReply(i)
  \/ \E i \in 1..Len(inflight) : FetchResolve(i)
  \/ \E i \in 1..Len(inflight) : FetchReject(i)
  \/ SourcesResolve
  \/ SourcesReject

SpecStorePage == InitStorePage /\ [][NextStorePage]_vars

(***************************************************************************)
(* Installing from the store: installExtension of useExtensionStore, the   *)
(* backend's install_from_store, and the extension manager next to it.     *)
(***************************************************************************)
\* The extension ids of the entries the store list shows (entry i carries
\* the i-th extension).
ListedExtensionIds ==
  {ExtOrder[e.id] : e \in {e \in Range(storeExtensions) : e.id \in 1..Len(ExtOrder)}}

\* installExtension(id) up to its await; fetchExtensions is the one of the
\* render the callback was made in.
installExtension(k, id) ==
  /\ sourcesPc # "unmounted"
  /\ id \in ListedExtensionIds
  /\ FirstFreeSlot(k)
  /\ opsIssued < MaxOps
  /\ opsIssued' = opsIssued + 1
  /\ storeError' = NoError
  /\ calls' = [calls EXCEPT ![k] =
                 [NewCall("install_from_store", id) EXCEPT
                    !.req = Request(TRUE, currentPage, filters, sort, hookSources)]]
  /\ UNCHANGED <<variant, catalogSize, storeExtensions, storeLoading, hasMore, currentPage,
                 filters, sort, hookSources, sourcesPc, inflight, listOrigin, storeOps>>
  /\ UNCHANGED <<libVars, runtimeVars, gateVars, registryVars, settingsVars, sourceVars, filterPageVars, extensions,
                 menuItems, extLoading, extError>>

\* install_from_store resolves, downloads and verifies the package before it
\* hands over to the registry's install.
DownloadPackage(k) ==
  LET c == calls[k]
  IN /\ c.phase = "sent"
     /\ c.op = "install_from_store"
     /\ \/ calls' = [calls EXCEPT ![k].phase = "downloaded"]
        \/ calls' = [calls EXCEPT ![k] = Reply(c, FALSE, "NetworkFailure")]
     /\ UNCHANGED <<outsideRegistry, extensions, menuItems, extLoading, extError, opsIssued,
                    registryVars>>

\* installExtension after its await: fetchExtensions(true), or the catch.
StoreInstallReply(k) ==
  LET c == calls[k]
  IN /\ c.phase = "replied"
     /\ c.op = "install_from_store"
     /\ calls' = [calls EXCEPT ![k] = IdleCall]
     /\ IF c.ok
        THEN /\ Len(inflight) < MaxInFlight
             /\ inflight' = Append(inflight, c.req)
             /\ storeLoading' = TRUE
             /\ storeError' = NoError
        ELSE /\ storeError' = "Failed to install extension"
             /\ UNCHANGED <<inflight, storeLoading>>
     /\ UNCHANGED <<variant, catalogSize, storeExtensions, hasMore, currentPage, filters, sort,
                    hookSources, sourcesPc, listOrigin, storeOps>>
     /\ UNCHANGED <<libVars, runtimeVars, gateVars, registryVars, settingsVars, sourceVars, filterPageVars, extensions,
                    menuItems, extLoading, extError, opsIssued>>

\* The store page has loaded the sources and the one page of a catalog of
\* two entries; the extension manager has just been mounted.  The first
\* extension is not installed, the last one was installed and enabled earlier.
InitInstall ==
  /\ segs1 = <<0>> /\ segs2 = <<0>>
  /\ v1 = JoinDots(segs1) /\ v2 = JoinDots(segs2)
  /\ verPc = "input" /\ verResult = 0
  /\ storeExtension = [id |-> "e1", version |-> v1]
  /\ updateAvailable = FALSE
  /\ extensions = <<>>
  /\ menuItems = {}
  /\ extLoading = TRUE
  /\ extError = NoError
  /\ calls = [slot \in 1..MaxCalls |-> IF slot = 1 THEN RefreshCall ELSE IdleCall]
  /\ opsIssued = 0
  /\ lifecycle = [id \in ExtIds |-> IF id = ExtOrder[Len(ExtOrder)] THEN "Enabled"
                                    ELSE "Discovered"]
  /\ incarnation = [id \in ExtIds |-> 1]
  /\ lastEdge = [id \in ExtIds |-> IF id = ExtOrder[Len(ExtOrder)]
                                  THEN <<"Enabling", "Enabled">> ELSE NoEdge]
  /\ hooks = [name \in HookNames |-> <<>>]
  /\ regLog = <<>>
  /\ hookCall = NoHookCall
  /\ manifestRev = [id \in ExtIds |-> 1]
  /\ granted = [id \in ExtIds |-> {}]
  /\ lastGate = NoGateCall
  /\ NoSettings
  /\ NoManifest
  /\ NoSourcePage
  /\ NoFilterPage
  /\ variant \in {"A", "B"}
  /\ catalogSize = Len(ExtOrder)
  /\ hookSources = SortByPriority(BackendSources)
  /\ sourcesPc = "done"
  /\ filters = NoFilters
  /\ sort = "Name"
  /\ listOrigin = <<Request(TRUE, 0, filters, sort, hookSources)>>
  /\ storeExtensions = fetch_store_extensions(listOrigin[1], catalogSize)
  /\ storeLoading = FALSE
  /\ storeError = NoError
  /\ hasMore = FALSE
  /\ currentPage = 1
  /\ inflight = <<>>
  /\ storeOps = 0

NextInstall ==
  \/ \E k \in 1..MaxCalls :
       \/ \E id \in ExtIds : installExtension(k, id)
       \/ DownloadPackage(k)
       \/ StoreInstallReply(k)
       \/ \E id \in ExtIds : handleInstall(k, id)
       \/ BackendBegin(k)
       \/ BackendReject(k)
       \/ BackendFinish(k)
       \/ HandleReply(k)
       \/ ListExtensionsReply(k)
       \/ MenuItemsReply(k)
       \/ RefreshDone(k)
  \/ \E i \in 1..Len(inflight) : FetchResolve(i)
  \/ \E i \in 1..Len(inflight) : FetchReject(i)

SpecInstall == InitInstall /\ [][NextInstall]_vars

(***************************************************************************)
(* Extension settings: the functions of the hook in use-app-settings.ts    *)
(* and the extension_settings table behind them.                           *)
(***************************************************************************)
SettingKeys == {"k1", "k2"}

SettingValues == {"v1"}

\* The registry has a row for the id.
RowExists(id) == lifecycle[id] \notin {"Discovered", "Removed"}

KeysOf(rows) == {row[1] : row \in rows}

\* set_extension_setting: keys are unique per extension.
PutSetting(rows, key, value) == {row \in rows : row[1] # key} \cup {<<key, value>>}

SettingCall(op, id, key, value) ==
  [op |-> op, id |-> id, key |-> key, value |-> value, phase |-> "sent", ok |-> TRUE,
   result |-> {}, state |-> "none"]

\* setExtensionSetting / deleteExtensionSetting / listExtensionSettings up
\* to the await.
CallSetting(c) ==
  /\ sourcesPc # "unmounted"
  /\ Len(settingCalls) < MaxSettingCalls
  /\ opsIssued < MaxOps
  /\ opsIssued' = opsIssued + 1
  /\ storeError' = NoError
  /\ settingCalls' = Append(settingCalls, c)
  /\ UNCHANGED <<detailCalls, variant, catalogSize, storeExtensions, storeLoading, hasMore, currentPage,
                 filters, sort, hookSources, sourcesPc, inflight, listOrigin, storeOps>>
  /\ UNCHANGED <<libVars, runtimeVars, gateVars, registryVars, sourceVars, filterPageVars, extensions,
                 menuItems, extLoading, extError, calls>>

setExtensionSetting(id, key, value) == CallSetting(SettingCall("set", id, key, value))

deleteExtensionSetting(id, key) == CallSetting(SettingCall("delete", id, key, "none"))

listExtensionSettings(id) == CallSetting(SettingCall("list", id, "none", "none"))

\* The backend answers settings call i.
SettingBackend(i) ==
  LET c == settingCalls[i]
      done(ok) == [c EXCEPT !.phase = "replied", !.ok = ok, !.state = lifecycle[c.id]]
  IN /\ c.phase = "sent"
     /\ \/ /\ c.op = "set" /\ RowExists(c.id)
           /\ settings' = [settings EXCEPT ![c.id] = PutSetting(@, c.key, c.value)]
           /\ settingCalls' = [settingCalls EXCEPT ![i] = done(TRUE)]
        \/ /\ c.op = "delete" /\ RowExists(c.id) /\ c.key \in KeysOf(settings[c.id])
           /\ settings' = [settings EXCEPT ![c.id] = {row \in @ : row[1] # c.key}]
           /\ settingCalls' = [settingCalls EXCEPT ![i] = done(TRUE)]
        \/ /\ \/ c.op = "set" /\ ~RowExists(c.id)
              \/ c.op = "delete" /\ ~(RowExists(c.id) /\ c.key \in KeysOf(settings[c.id]))
           /\ settingCalls' = [settingCalls EXCEPT ![i] = done(FALSE)]
           /\ UNCHANGED settings
        \/ /\ c.op = "list"
           /\ settingCalls' = [settingCalls EXCEPT ![i] = [done(TRUE) EXCEPT !.result = settings[c.id]]]
           /\ UNCHANGED settings
     /\ UNCHANGED <<lifecycle, incarnation, lastEdge, extHookVars, storeVars, libVars,
                    runtimeVars, gateVars, sourceVars, filterPageVars, detailCalls>>

SettingFailMessage(op) ==
  CASE op = "set" -> "Failed to set extension setting"
    [] op = "delete" -> "Failed to delete extension setting"
    [] op = "list" -> "Failed to list extension settings"

\* The continuation after the await: the value is returned, or the catch
\* sets error.
SettingReply(i) ==
  LET c == settingCalls[i]
  IN /\ c.phase = "replied"
     /\ settingCalls' = RemoveAt(settingCalls, i)
     /\ storeError' = IF c.ok THEN storeError ELSE SettingFailMessage(c.op)
     /\ UNCHANGED <<detailCalls, variant, catalogSize, storeExtensions, storeLoading, hasMore, currentPage,
                    filters, sort, hookSources, sourcesPc, inflight, listOrigin, storeOps>>
     /\ UNCHANGED <<libVars, runtimeVars, gateVars, registryVars, extHookVars, sourceVars, filterPageVars>>

\* The hook of use-app-settings.ts has loaded the store, and the extension
\* manager has just been mounted; the last extension is installed and enabled.
InitSettings ==
  /\ segs1 = <<0>> /\ segs2 = <<0>>
  /\ v1 = JoinDots(segs1) /\ v2 = JoinDots(segs2)
  /\ verPc = "input" /\ verResult = 0
  /\ storeExtension = [id |-> "e1", version |-> v1]
  /\ updateAvailable = FALSE
  /\ extensions = <<>>
  /\ menuItems = {}
  /\ extLoading = TRUE
  /\ extError = NoError
  /\ calls = [slot \in 1..MaxCalls |-> IF slot = 1 THEN RefreshCall ELSE IdleCall]
  /\ opsIssued = 0
  /\ lifecycle = [id \in ExtIds |-> IF id = ExtOrder[Len(ExtOrder)] THEN "Enabled"
                                    ELSE "Discovered"]
  /\ incarnation = [id \in ExtIds |-> 1]
  /\ lastEdge = [id \in ExtIds |-> IF id = ExtOrder[Len(ExtOrder)]
                                  THEN <<"Enabling", "Enabled">> ELSE NoEdge]
  /\ hooks = [name \in HookNames |-> <<>>]
  /\ regLog = <<>>
  /\ hookCall = NoHookCall
  /\ manifestRev = [id \in ExtIds |-> 1]
  /\ granted = [id \in ExtIds |-> {}]
  /\ lastGate = NoGateCall
  /\ NoSettings
  /\ NoManifest
  /\ NoSourcePage
  /\ NoFilterPage
  /\ variant = "B"
  /\ catalogSize = Len(ExtOrder)
  /\ hookSources = SortByPriority(BackendSources)
  /\ sourcesPc = "done"
  /\ filters = NoFilters
  /\ sort = "Name"
  /\ listOrigin = <<Request(TRUE, 0, filters, sort, hookSources)>>
  /\ storeExtensions = fetch_store_extensions(listOrigin[1], catalogSize)
  /\ storeLoading = FALSE
  /\ storeError = NoError
  /\ hasMore = FALSE
  /\ currentPage = 1
  /\ inflight = <<>>
  /\ storeOps = 0

NextSettings ==
  \/ \E id \in ExtIds, key \in SettingKeys, value \in SettingValues :
       setExtensionSetting(id, key, value)
  \/ \E id \in ExtIds, key \in SettingKeys : deleteExtensionSetting(id, key)
  \/ \E id \in ExtIds : listExtensionSettings(id)
  \/ \E i \in 1..Len(settingCalls) : SettingBackend(i)
  \/ \E i \in 1..Len(settingCalls) : SettingReply(i)
  \/ \E k \in 1..MaxCalls :
       \/ \E i \in 1..Cardinality(ExtIds) : handleUninstall(k, i)
       \/ BackendBegin(k)
       \/ BackendReject(k)
       \/ BackendFinish(k)
       \/ HandleReply(k)
       \/ ListExtensionsReply(k)
       \/ MenuItemsReply(k)
       \/ RefreshDone(k)

SpecSettings == InitSettings /\ [][NextSettings]_vars

(***************************************************************************)
(* Manifest checks of lib/extensions.ts: the inputs are drawn in Init, the *)
(* actions apply the functions.                                            *)
(***************************************************************************)
\* Type strings a manifest may carry: the three types, and others.
TypeStrings == {"theme", "data_source", "game_library", "plugin", "Theme", ""}

\* Permission strings a manifest may carry: the five kinds, and others.
PermissionStrings ==
  {"filesystem", "network", "database", "ui", "native", "camera", "Network", ""}

\* Variant whose list lacks the last kind.
isValidPermission_four(permission) ==
  LET validPermissions == <<"filesystem", "network", "database", "ui">>
  IN \E k \in 1..Len(validPermissions) : validPermissions[k] = permission

\* validPermissions.includes(permission)
isValidPermission(permission) ==
  LET validPermissions == <<"filesystem", "network", "database", "ui", "native">>
  IN \E k \in 1..Len(validPermissions) : validPermissions[k] = permission

\* The switch of getExtensionTypeFromString with its default.
getExtensionTypeFromString(type) ==
  CASE type = "theme" -> "Theme"
    [] type = "data_source" -> "DataSource"
    [] type = "game_library" -> "GameLibrary"
    [] OTHER -> "Theme"

\* isValidPermission on the next permission of the manifest.
CheckPermission ==
  /\ Len(permResults) < Len(manifestPerms)
  /\ permResults' = Append(permResults, isValidPermission(manifestPerms[Len(permResults) + 1]))
  /\ UNCHANGED <<manifestType, manifestPerms, typeResult, versionVars, outsideLib>>

\* getExtensionTypeFromString on the type of the manifest.
ParseType ==
  /\ typeResult = "none"
  /\ typeResult' = getExtensionTypeFromString(manifestType)
  /\ UNCHANGED <<manifestType, manifestPerms, permResults, versionVars, outsideLib>>

InitManifest ==
  /\ segs1 = <<0>> /\ segs2 = <<0>>
  /\ v1 = JoinDots(segs1) /\ v2 = JoinDots(segs2)
  /\ verPc = "input" /\ verResult = 0
  /\ storeExtension = [id |-> "e1", version |-> v1]
  /\ updateAvailable = FALSE
  /\ extensions = <<>>
  /\ menuItems = {}
  /\ extLoading = FALSE
  /\ extError = NoError
  /\ calls = [slot \in 1..MaxCalls |-> IdleCall]
  /\ opsIssued = 0
  /\ lifecycle = [id \in ExtIds |-> "Discovered"]
  /\ incarnation = [id \in ExtIds |-> 1]
  /\ lastEdge = [id \in ExtIds |-> NoEdge]
  /\ hooks = [name \in HookNames |-> <<>>]
  /\ regLog = <<>>
  /\ hookCall = NoHookCall
  /\ manifestRev = [id \in ExtIds |-> 1]
  /\ granted = [id \in ExtIds |-> {}]
  /\ lastGate = NoGateCall
  /\ NoSettings
  /\ NoSourcePage
  /\ NoFilterPage
  /\ StoreUnmounted
  /\ manifestType \in TypeStrings
  /\ manifestPerms \in UNION {[1..k -> PermissionStrings] : k \in 0..MaxPermissions}
  /\ permResults = <<>>
  /\ typeResult = "none"

NextManifest ==
  \/ CheckPermission
  \/ ParseType

SpecManifest == InitManifest /\ [][NextManifest]_vars

(***************************************************************************)
(* Reference reading of a version as its sequence of integer segments.     *)
(***************************************************************************)
PadAt(ns, i) == IF i <= Len(ns) THEN ns[i] ELSE 0

PaddedPositions(a, b) == 1..Max(Len(a), Len(b))

PaddedEqual(a, b) == \A i \in PaddedPositions(a, b) : PadAt(a, i) = PadAt(b, i)

\* Sign of the difference at the first padded position where a and b differ.
FirstDifferenceSign(a, b) ==
  IF PaddedEqual(a, b) THEN 0
  ELSE LET d == CHOOSE i \in PaddedPositions(a, b) :
                  /\ PadAt(a, i) # PadAt(b, i)
                  /\ \A j \in 1..(i - 1) : PadAt(a, j) = PadAt(b, j)
       IN IF PadAt(a, d) < PadAt(b, d) THEN -1 ELSE 1

InstalledSameId == \E i \in 1..Len(extensions) : extensions[i].id = storeExtension.id

\* C5: per-id mutual exclusion.  At most one install/enable/disable/uninstall
\* is running on an id, an id is in a transient state exactly while its one
\* operation runs, a call is rejected with OperationInProgress only when
\* an operation on the same id is running, and a call that finds an operation
\* running on its id waits or is rejected with OperationInProgress.
C5_ExclusionState ==
  \A id \in ExtIds :
    /\ Cardinality(RunningOn(id)) <= 1
    /\ lifecycle[id] \in TransientStates <=>
         \E k \in RunningOn(id) : TransientOf(calls[k].op) = lifecycle[id]

C5_RejectOnlySameId ==
  \A k \in 1..MaxCalls :
    /\ (calls[k].phase = "sent" /\ calls'[k].err = "OperationInProgress")
         => RunningOn(calls[k].id) # {}
    /\ (calls[k].phase = "sent" /\ calls[k].op \in MutatingOps
          /\ RunningOn(calls[k].id) # {})
         => \/ calls'[k] = calls[k]
            \/ calls'[k].err = "OperationInProgress"

C5_PerIdMutualExclusion == [](C5_ExclusionState) /\ [][C5_RejectOnlySameId]_vars

\* Two enable calls on one id are in flight: one runs and the other waits.
C5_Witness ==
  \E k, j \in 1..MaxCalls :
    /\ k # j
    /\ calls[k].op = "enable" /\ calls[k].phase = "running"
    /\ calls[j].op = "enable" /\ calls[j].phase = "sent"
    /\ calls[j].id = calls[k].id

\* C6 as stated: every lifecycle transition is one of the listed edges, and
\* Uninstalling is entered only from Installed, Disabled or Failed.
ClaimedEdges ==
  (DiagramEdges \ {<<"Enabled", "Uninstalling">>}) \cup FailedEdges

RegisteredFor(name) ==
  LET regs == SelectSeq(regLog, LAMBDA hk : hk.name = name)
  IN [i \in 1..Len(regs) |-> regs[i].handler]

IsPrefix(a, b) == Len(a) <= Len(b) /\ \A i \in 1..Len(a) : a[i] = b[i]

\* C7: a completed callHook has invoked every handler of the hook and returns
\* one outcome per handler, also when some handlers failed.
C7_PerHandlerOutcomes ==
  hookCall.status \in {"resolved", "rejected"} =>
    /\ Len(hookCall.started) = Len(hookCall.snapshot)
    /\ Len(hookCall.result) = Len(hookCall.snapshot)

\* C8: callHook starts the handlers of the hook name in registration order,
\* and entry i of its result is the value of the i-th registered handler,
\* whatever order the handlers completed in.
C8_RegistrationOrder ==
  hookCall.status # "none" =>
    /\ IsPrefix(hookCall.started, RegisteredFor(hookCall.name))
    /\ Len(hookCall.started) = Len(hookCall.snapshot)
    /\ hookCall.status = "resolved" =>
         /\ Len(hookCall.result) = Len(hookCall.started)
         /\ \A i \in 1..Len(hookCall.result) :
              hookCall.result[i] = RegisteredFor(hookCall.name)[i]

\* Two handlers of one hook, the second completing first.
C8_Witness ==
  /\ hookCall.status = "resolved"
  /\ hookCall.completion = <<2, 1>>
  /\ hookCall.result[1] # hookCall.result[2]

\* C9: no handler of an extension that is disabled at dispatch time is invoked.
C9_DisabledSkipped ==
  hookCall.status # "none" =>
    \A i \in 1..Len(hookCall.started) :
      HandlerOwner(hookCall.started[i]) \in hookCall.enabledAtDispatch

\* C10: authorize(id, p) succeeds exactly when p is declared in the manifest
\* of id and granted to it; a grant of an undeclared permission is rejected,
\* nothing undeclared is ever granted, and a revoked permission is not granted.
C10_AuthorizeIffDeclaredAndGranted ==
  /\ \A id \in ExtIds : granted[id] \subseteq ManifestPermissions(id, manifestRev[id])
  /\ lastGate.op = "authorize" =>
       lastGate.ok = /\ lastGate.permission \in ManifestPermissions(lastGate.id, manifestRev[lastGate.id])
                     /\ lastGate.permission \in granted[lastGate.id]
  /\ lastGate.op = "request_grant" =>
       /\ lastGate.ok = (lastGate.permission \in ManifestPermissions(lastGate.id, manifestRev[lastGate.id]))
       /\ lastGate.ok = (lastGate.permission \in granted[lastGate.id])
  /\ lastGate.op = "revoke" => lastGate.permission \notin granted[lastGate.id]

\* authorize fails for a declared permission that is not (or no longer) granted.
C10_Witness ==
  /\ lastGate.op = "authorize"
  /\ ~lastGate.ok
  /\ lastGate.permission \in ManifestPermissions(lastGate.id, manifestRev[lastGate.id])
  /\ manifestRev[lastGate.id] = 2
  /\ granted[lastGate.id] # {}

\* C1: two version strings that differ only by trailing zero segments compare
\* as equal, whatever their segment counts are.
C1_TrailingZerosEqual ==
  (verPc # "input" /\ PaddedEqual(segs1, segs2)) => verResult = 0

C1_Witness ==
  /\ verPc = "compared"
  /\ v1 = <<"1", ".", "9">>
  /\ v2 = <<"1", ".", "9", ".", "0">>
  /\ verResult = 0

\* C2: compareVersions returns -1, 0 or 1, the sign of the difference at the
\* first zero-padded position where the integer segments differ.
C2_FirstDifferenceSign ==
  verPc # "input" =>
    /\ verResult \in {-1, 0, 1}
    /\ verResult = FirstDifferenceSign(segs1, segs2)

C2_Witness ==
  /\ verPc = "compared"
  /\ v1 = <<"1", ".", "1", "0", ".", "0">>
  /\ v2 = <<"1", ".", "9", ".", "9">>
  /\ verResult = 1

\* C3: isUpdateAvailable is true exactly when the hook's installed list has
\* an extension with the store extension's id and the store version is
\* strictly greater than the installed one (compareVersions > 0).
C3_UpdateAvailable ==
  verPc = "checked" =>
    /\ updateAvailable = (InstalledSameId /\ verResult > 0)
    /\ updateAvailable = (InstalledSameId /\ FirstDifferenceSign(segs1, segs2) = 1)

C3_Witness ==
  /\ verPc = "checked"
  /\ InstalledSameId
  /\ updateAvailable
  /\ Len(segs1) < Len(segs2)

SameQuery(a, b) ==
  /\ a.search = b.search /\ a.source_ids = b.source_ids
  /\ a.sort = b.sort /\ a.limit = b.limit

\* The list was built by a reset fetch of page 0 followed by one loadMore
\* fetch of page 1 of the same query.
PageZeroThenPageOne ==
  /\ Len(listOrigin) = 2
  /\ listOrigin[1].reset /\ listOrigin[1].page = 0
  /\ ~listOrigin[2].reset /\ listOrigin[2].page = 1
  /\ SameQuery(listOrigin[1], listOrigin[2])

NoDuplicates(seq) == \A i, j \in 1..Len(seq) : seq[i].id = seq[j].id => i = j

ExtensionRow(id) ==
  [state |-> lifecycle[id], incarnation |-> incarnation[id], manifest |-> manifestRev[id],
   granted |-> granted[id], enabled |-> BackendEnabled(id)]

LiveStates == LifecycleStates \ {"Discovered", "Failed", "Removed"}

\* C11: an install that reaches the registry for an id that exists in a
\* state other than Failed or Removed never starts: it is answered with
\* AlreadyInstalled (while another operation runs on the id it waits or the
\* exclusion answers OperationInProgress), and the extension's manifest,
\* state, granted permissions and enabled flag stay as they are; for
\* install_extension and for install_from_store alike.
C11_Step ==
  \A k \in 1..MaxCalls :
    LET c == calls[k]
    IN (c.op \in InstallOps /\ AtRegistry(c) /\ lifecycle[c.id] \in LiveStates
          /\ calls'[k] # c)
         => /\ calls'[k].phase = "replied"
            /\ ~calls'[k].ok
            /\ calls'[k].err = IF RunningOn(c.id) = {} THEN "AlreadyInstalled"
                               ELSE "OperationInProgress"
            /\ ExtensionRow(c.id)' = ExtensionRow(c.id)

C12_State ==
  /\ \A id \in ExtIds : lifecycle[id] = "Removed" => settings[id] = {}
  /\ \A i \in 1..Len(settingCalls) :
       LET c == settingCalls[i]
       IN (c.op = "list" /\ c.phase = "replied" /\ c.state = "Removed") => c.result = {}

C12_Step ==
  /\ C12_State'
  /\ \A id \in ExtIds :
       (lifecycle[id] # "Removed" /\ lifecycle'[id] = "Removed")
         => \A other \in ExtIds \ {id} : settings'[other] = settings[other]

ListedBy(i, req) ==
  {b \in Range(backendSources) : b.enabled /\ b.id \in Range(req.source_ids) /\ Lists(b.id, i)}

\* C13: when the list shows the reply to one query, every extension id
\* occurs in it once, and an entry whose id is listed by several of the
\* queried sources carries the source_id of the one with the lowest priority
\* number.
C13_MergeKeepsHighestPriority ==
  (Len(listOrigin) = 1) =>
    /\ NoDuplicates(storeExtensions)
    /\ \A k \in 1..Len(storeExtensions) :
         LET e == storeExtensions[k]
             owners == ListedBy(e.id, listOrigin[1])
         IN /\ \E b \in owners : b.id = e.source_id
            /\ \A b \in owners :
                 \A c \in owners : c.id = e.source_id => c.priority <= b.priority

\* A query over both sources shows an entry that both of them list.
C13_Witness ==
  /\ Len(listOrigin) = 1
  /\ \E k \in 1..Len(storeExtensions) :
       Cardinality(ListedBy(storeExtensions[k].id, listOrigin[1])) = 2

\* The requests the step sends: fetches join the end of inflight.
NewRequests ==
  IF Len(inflight') > Len(inflight)
  THEN SubSeq(inflight', Len(inflight) + 1, Len(inflight'))
  ELSE IF Len(inflight') = Len(inflight) /\ inflight' # inflight
       THEN <<inflight'[Len(inflight')]>>
       ELSE <<>>

\* C14: a query that starts while the filters carry no source_ids sends the
\* ids of the sources that are enabled at that moment, each once; a query
\* that starts while the filters carry source_ids sends those.
C14_Step ==
  \A k \in 1..Len(NewRequests) :
    LET r == NewRequests[k]
    IN IF filters'.source_ids = Undefined
       THEN /\ Range(r.source_ids) = EnabledIds(backendSources)
            /\ Len(r.source_ids) = Cardinality(EnabledIds(backendSources))
       ELSE r.source_ids = <<filters'.source_ids>>

C14_DefaultsToEnabledSources == [][C14_Step]_vars

\* The sources a removeSource of the page has removed: the backend no
\* longer has them and the page no longer shows them.
RemovedSources ==
  {id \in SourceIdsOf(BackendSources) :
     id \notin SourceIdsOf(backendSources) /\ id \notin SourceIdsOf(pageSources.sources)}

\* C15: once removeSource(s) has succeeded on the store page, a query that
\* starts while the filters carry no source_ids does not send s; and a step
\* that removes a source leaves the installed extensions as they were.
C15_Step ==
  /\ \A k \in 1..Len(NewRequests) :
       filters'.source_ids = Undefined =>
         Range(NewRequests[k].source_ids) \cap RemovedSources = {}
  /\ (backendSources' # backendSources \/ pageSources' # pageSources) =>
       UNCHANGED <<extensions, lifecycle>>

C15_RemovedSourceNotQueried == [][C15_Step]_vars

\* C16: a details request for an extension the list shows names the source
\* that owns it, the source_id of the listed entry with that id.
C16_Step ==
  (Len(detailCalls') > Len(detailCalls)) =>
    LET c == detailCalls'[Len(detailCalls')]
    IN \E e \in Range(storeExtensions) : e.id = c.extensionId /\ e.source_id = c.sourceId

C16_DetailsFromOwningSource == [][C16_Step]_vars

\* C17: the sources list of useStoreSources is in ascending order of
\* priority, and sources of equal priority are in the order of their ids.
C17_SourcesOrdered ==
  \A i, j \in 1..Len(pageSources.sources) :
    i < j =>
      LET a == pageSources.sources[i]
          b == pageSources.sources[j]
      IN a.priority < b.priority \/ (a.priority = b.priority /\ SourceNo(a.id) < SourceNo(b.id))

\* C18: when a store query fails, so that the catch of fetchExtensions sets
\* error to the failure's message, loading becomes false and extensions,
\* currentPage and hasMore stay as they were: the failure is not shown as
\* an empty result.
C18_Step ==
  (storeError # "NetworkFailure" /\ storeError' = "NetworkFailure") =>
    /\ storeLoading' = FALSE
    /\ UNCHANGED <<storeExtensions, currentPage, hasMore>>

C18_FailureKeepsList == [][C18_Step]_vars

\* A query failed while the list showed a full first page with more to
\* come, and the page is still shown.
C18_Witness ==
  /\ storeError = "NetworkFailure"
  /\ ~storeLoading
  /\ Len(storeExtensions) = PAGE_SIZE
  /\ hasMore
  /\ currentPage = 1

\* C19: isValidPermission answers true for exactly the five permission
\* kinds filesystem, network, database, ui and native, and false for every
\* other permission string of a manifest.
C19_PermissionVocabularyClosed ==
  \A k \in 1..Len(permResults) :
    permResults[k] = (manifestPerms[k] \in {"filesystem", "network", "database", "ui", "native"})

\* A manifest with the kind native and with a string outside the kinds has
\* been checked.
C19_Witness ==
  /\ Len(permResults) = 2
  /\ \E k \in 1..2 : manifestPerms[k] = "native" /\ permResults[k]
  /\ \E k \in 1..2 : manifestPerms[k] = "Network" /\ ~permResults[k]

\* C20: a type string outside theme, data_source and game_library is
\* rejected as unsupported and is not given one of the three types.
C20_UnsupportedTypeRejected ==
  (typeResult # "none" /\ manifestType \notin {"theme", "data_source", "game_library"}) =>
    typeResult \notin {"Theme", "DataSource", "GameLibrary"}

\* No call of useExtensions is in flight.
NoExtensionCall == \A k \in 1..MaxCalls : calls[k].phase = "idle"

\* C21: when every operation of useExtensions has completed, menuItems
\* holds no menu item of an extension whose enabled flag is false in the
\* hook's extensions list.
C21_MenuItemsOfEnabledOnly ==
  NoExtensionCall =>
    \A i \in 1..Len(extensions) : ~extensions[i].enabled => extensions[i].id \notin menuItems

\* C28: when no operation of useExtensions is in flight, the enabled flag of
\* every extension of the hook's list is the backend's enabled state of it
\* (stated for the states in which the hook reports no error and no
\* extension has failed in the backend).
C28_EnabledFlagMatchesBackend ==
  (NoExtensionCall /\ extError = NoError /\ \A id \in ExtIds : lifecycle[id] # "Failed") =>
    \A i \in 1..Len(extensions) : extensions[i].enabled = BackendEnabled(extensions[i].id)

\* C22: once a loadMore has appended a page, a step that is not an operation
\* of the hook's user keeps what is listed as a prefix of the list and does
\* not lower currentPage.
C22_Step ==
  (Len(listOrigin) >= 2 /\ storeOps' = storeOps) =>
    /\ currentPage' >= currentPage
    /\ Len(storeExtensions') >= Len(storeExtensions)
    /\ SubSeq(storeExtensions', 1, Len(storeExtensions)) = storeExtensions

C22_LoadedPagesKept == [][C22_Step]_vars

\* C23: whenever no store fetch is in flight (and the last one did not fail),
\* every page of the list is the result of a query issued with the current
\* search text and sort.
C23_ListOfCurrentQuery ==
  (inflight = <<>> /\ storeError = NoError) =>
    \A i \in 1..Len(listOrigin) :
      listOrigin[i].search = filters.search /\ listOrigin[i].sort = sort

\* C25: loading is true whenever a store fetch is in flight.
C25_LoadingWhileInFlight == inflight # <<>> => storeLoading

\* The fetches in flight that loadMore started.
LoadMoreInFlight == {i \in 1..Len(inflight) : ~inflight[i].reset}

\* C24: at most one fetch started by loadMore is in flight at a time, and no
\* page index is in the list more than once.
C24_LoadMoreNotDuplicated ==
  /\ Cardinality(LoadMoreInFlight) <= 1
  /\ \A i, j \in 1..Len(listOrigin) : i # j => listOrigin[i].page # listOrigin[j].page

\* The number of items the query of the listed pages matches.
MatchedItems == Len(Catalog(listOrigin[1], catalogSize))

\* C26: over a catalog whose query matches n items, with page 0 loaded, the
\* awaited loadMore calls issue at most floor(n / PAGE_SIZE) queries: hasMore
\* is false after floor(n / PAGE_SIZE) + 1 page fetches and loadMore then
\* issues nothing.
C26_LoadMoreQueriesBounded ==
  listOrigin # <<>> => storeOps <= MatchedItems \div PAGE_SIZE

\* C27: once the debounce timer has fired and every effect has run, the
\* hook's filters are the ones the controls of the store page show.
C27_FiltersMatchSelections == ~timer.pending => filters = Selections

\* C29: once an install has succeeded and nothing is in flight or failed,
\* getExtensionById of a useExtensions instance mounted next to the store
\* hook (every ExtensionCard has one, as the extension manager has) returns
\* the installed extension.
C29_InstalledIsListed ==
  (NoExtensionCall /\ inflight = <<>> /\ extError = NoError /\ storeError = NoError) =>
    \A id \in ExtIds :
      (lifecycle[id] = "Installed" /\ lastEdge[id] = <<"Installing", "Installed">>)
        => getExtensionById(extensions, id) # NoExtension

====
